---- MODULE Spec2Model ----
(***************************************************************************)
(* A model of the CK3ModManager definition tree (definition_tree.rs) and   *)
(* of the multi-mod extraction pipeline (paradox_parser.rs).               *)
(*                                                                         *)
(* Strings are sequences of one-character strings, paths are sequences of  *)
(* components, so that the classifier and the path functions are computed  *)
(* the way the code computes them.  NodeIds are 0-based as in the code;   *)
(* node i of an arena is nodes[i + 1].                                     *)
(***************************************************************************)
EXTENDS Integers, Sequences, FiniteSets, TLC

VARIABLES
    arena,       \* the shared Arena (nodes, provenance sets, library, mod_data)
    conflicts,   \* DefinitionExtractor.conflicts
    check_script_conflicts,
    check_loc_conflicts,
    modList,     \* the host's mods, in the order handed to enroll_mods
    disk,        \* per mod (by position in modList): its files, in walk order
    pc,          \* position of extract_definitions: "new", "enrolled", "txt", "yml", "other", "done"
    mod_files,   \* result of collect_mod_files_multithread
    extracted,   \* per-file arenas of the bucket being folded
    idx,         \* number of files of the current bucket folded so far
    folds,       \* per fold step so far: the mod, the bucket, the ids appended
    last,        \* the last operation, its arguments and what it returned
    lock,        \* the RwLock around the shared Arena: its writer and its read guards
    threads      \* per thread using the shared Arena: its position and its locals

vars == <<arena, conflicts, check_script_conflicts, check_loc_conflicts,
          modList, disk, pc, mod_files, extracted, idx, folds, last, lock, threads>>

\* RwLock::new: no writer, no read guard; the guards are listed by thread
FreeLock == [writer |-> <<>>, readers |-> <<>>]
\* no thread but the caller of the operations
NoThreads == <<>>

\* Option<T>: None is the empty sequence, Some(x) the one-element sequence
None == <<>>
Some(x) == <<x>>
Unwrap(o) == o[1]
IsSome(o) == o # None

----------------------------------------------------------------------------
(* Strings and paths                                                       *)

UpperChars == <<"A","B","C","D","E","F","G","H","I","J","K","L","M",
                "N","O","P","Q","R","S","T","U","V","W","X","Y","Z">>
LowerChars == <<"a","b","c","d","e","f","g","h","i","j","k","l","m",
                "n","o","p","q","r","s","t","u","v","w","x","y","z">>

\* char::to_ascii_lowercase
LowerChar(c) ==
    IF \E i \in 1..Len(UpperChars) : UpperChars[i] = c
    THEN LowerChars[CHOOSE i \in 1..Len(UpperChars) : UpperChars[i] = c]
    ELSE c

\* str::to_ascii_lowercase
ToAsciiLowercase(s) == [i \in 1..Len(s) |-> LowerChar(s[i])]

\* Position of the last '.' of s, 0 when there is none.
LastDot(s) ==
    IF \E i \in 1..Len(s) : s[i] = "."
    THEN CHOOSE i \in 1..Len(s) :
            s[i] = "." /\ \A j \in (i+1)..Len(s) : s[j] # "."
    ELSE 0

\* Path::extension of a file name: the text after the last '.', None when
\* there is no '.', when the only '.' is the first character, or for "..".
NameExtension(s) ==
    IF s = <<".", ".">> \/ LastDot(s) <= 1 THEN None
    ELSE Some(SubSeq(s, LastDot(s) + 1, Len(s)))

\* Path::file_name: the last of the path's components when it is a normal
\* one.  Path::components passes over every "." that is not the first
\* component, so "c/f.txt/." has the file name f.txt; "." and paths that end
\* in ".." have none.
FileName(p) ==
    IF p = <<>> THEN None
    ELSE LET k == IF \E i \in 2..Len(p) : p[i] # <<".">>
                  THEN CHOOSE i \in 2..Len(p) :
                          p[i] # <<".">> /\ \A j \in (i+1)..Len(p) : p[j] = <<".">>
                  ELSE 1
         IN IF p[k] = <<".">> \/ p[k] = <<".", ".">> THEN None ELSE Some(p[k])

\* Path::extension of a path
PathExtension(p) ==
    IF FileName(p) = None THEN None ELSE NameExtension(Unwrap(FileName(p)))

\* PathBuf::join with a one-component relative path
Join(p, key) == Append(p, key)

\* PathBuf::join with a relative path
JoinPath(p, q) == p \o q

\* Path::parent: None for the empty path
PathParent(p) == IF p = <<>> THEN None ELSE Some(SubSeq(p, 1, Len(p) - 1))

\* s starts with the text t / ends with the text t
StartsWith(s, t) == Len(s) >= Len(t) /\ SubSeq(s, 1, Len(t)) = t
EndsWith(s, t) == Len(s) >= Len(t) /\ SubSeq(s, Len(s) - Len(t) + 1, Len(s)) = t

----------------------------------------------------------------------------
(* Node type hierarchy                                                     *)

\* #[derive(PartialOrd)] on enum NodeType: the declaration order
NodeTypeRank(t) ==
    CASE t = "Value"      -> 0
      [] t = "Identifier" -> 1
      [] t = "File"       -> 2
      [] t = "Directory"  -> 3
      [] t = "Mod"        -> 4
      [] t = "Virtual"    -> 5

NodeTypes == {"Value", "Identifier", "File", "Directory", "Mod", "Virtual"}

TypeGe(a, b) == NodeTypeRank(a) >= NodeTypeRank(b)
TypeLe(a, b) == NodeTypeRank(a) <= NodeTypeRank(b)

KnownExtensions ==
    { <<"t","x","t">>, <<"y","m","l">>, <<"y","a","m","l">>, <<"g","u","i">>,
      <<"c","s","v">>, <<"d","d","s">>, <<"j","s","o","n">>, <<"m","o","d">> }

HasKnownExtension(ext) ==
    IsSome(ext) /\ ToAsciiLowercase(Unwrap(ext)) \in KnownExtensions

\* get_node_type with the name's extension tested before the Virtual cases
get_node_type_NameFirst(name, rel_dir, value) ==
    IF IsSome(value) THEN "Value"
    ELSE IF HasKnownExtension(NameExtension(name)) THEN "File"
    ELSE IF StartsWith(name, <<"<">>) /\ EndsWith(name, <<">">>) THEN "Virtual"
    ELSE IF rel_dir = <<>> THEN "Virtual"
    ELSE IF HasKnownExtension(PathExtension(rel_dir)) THEN "Identifier"
    ELSE "Directory"

\* get_node_type(name, rel_dir, value, None)
get_node_type(name, rel_dir, value) ==
    IF IsSome(value) THEN "Value"
    ELSE IF StartsWith(name, <<"<">>) /\ EndsWith(name, <<">">>) THEN "Virtual"
    ELSE IF rel_dir = <<>> THEN "Virtual"
    ELSE IF HasKnownExtension(NameExtension(name)) THEN "File"
    ELSE IF HasKnownExtension(PathExtension(rel_dir)) THEN "Identifier"
    ELSE "Directory"

----------------------------------------------------------------------------
(* IndexMap<String, NodeId> (children) and IndexSet<NodeId> (sources)      *)

Range(s) == { s[i] : i \in 1..Len(s) }

\* IndexMap: a sequence of [key, id] entries in insertion order
MapKeys(m) == { m[i].key : i \in 1..Len(m) }
MapHas(m, key) == \E i \in 1..Len(m) : m[i].key = key
MapIndex(m, key) == CHOOSE i \in 1..Len(m) : m[i].key = key
\* IndexMap::get
MapGet(m, key) == IF MapHas(m, key) THEN Some(m[MapIndex(m, key)].id) ELSE None
\* IndexMap::insert: overwrite in place, or append
MapInsert(m, key, id) ==
    IF MapHas(m, key)
    THEN [m EXCEPT ![MapIndex(m, key)] = [key |-> key, id |-> id]]
    ELSE Append(m, [key |-> key, id |-> id])

\* IndexSet::insert
SetInsert(s, x) == IF x \in Range(s) THEN s ELSE Append(s, x)
\* IndexSet::extend
RECURSIVE SetExtend(_, _)
SetExtend(s, t) ==
    IF t = <<>> THEN s ELSE SetExtend(SetInsert(s, Head(t)), Tail(t))
\* IndexSet == IndexSet: same length and every element contained
SetEq(s, t) == Len(s) = Len(t) /\ Range(s) \subseteq Range(t)

----------------------------------------------------------------------------
(* Arena                                                                   *)

\* Arena::new.  halted records that an assertion of the arena has failed
\* (the panic leaves the write lock poisoned: no later call goes through).
NewArena == [nodes |-> <<>>, sets |-> <<>>, library |-> <<>>, mod_data |-> <<>>,
             halted |-> FALSE]

\* Arena::len
ArenaLen(a) == Len(a.nodes)
Ids(a) == 0..(Len(a.nodes) - 1)
\* Arena::get
Node(a, id) == a.nodes[id + 1]
\* the IndexSet behind node id's sources Arc
SourcesOf(a, id) == a.sets[Node(a, id).sources + 1]

MakeNode(id, name, rel_dir, value, node_type) ==
    [id |-> id, parent |-> None, children |-> <<>>, node_type |-> node_type,
     value |-> value, sources |-> id, name |-> name, rel_dir |-> rel_dir,
     start_point |-> None]

LibHas(lib, name) == \E i \in 1..Len(lib) : lib[i].name = name
\* library.entry(name).or_default().push(id)
LibPush(lib, name, id) ==
    IF LibHas(lib, name)
    THEN LET i == CHOOSE j \in 1..Len(lib) : lib[j].name = name
         IN [lib EXCEPT ![i].ids = Append(@, id)]
    ELSE Append(lib, [name |-> name, ids |-> <<id>>])

\* Arena::new_node: the new node's id is ArenaLen(a)
new_node(a, name, rel_dir, value) ==
    LET id == ArenaLen(a) IN
    [a EXCEPT !.nodes = Append(@, MakeNode(id, name, rel_dir, value,
                                           get_node_type(name, rel_dir, value))),
              !.sets = Append(@, <<>>),
              !.library = LibPush(@, name, id)]

\* Arena::new_typed_node
new_typed_node(a, name, rel_dir, value, node_type) ==
    LET id == ArenaLen(a) IN
    [a EXCEPT !.nodes = Append(@, MakeNode(id, name, rel_dir, value, node_type)),
              !.sets = Append(@, <<>>)]

\* Arena::new_mod
new_mod(a, name, enabled, load_order, path) ==
    LET id == ArenaLen(a) IN
    [new_typed_node(a, name, <<>>, None, "Mod") EXCEPT
        !.mod_data = Append(@, [load_order |-> load_order, enabled |-> enabled,
                                name |-> name, node_id |-> id, path |-> path])]

\* set_source with a Vec in place of the IndexSet: the id is pushed again
set_source_Push(a, id, source_id) ==
    [a EXCEPT !.sets[Node(a, id).sources + 1] = Append(@, source_id)]

\* Arena::set_source
set_source(a, id, source_id) ==
    [a EXCEPT !.sets[Node(a, id).sources + 1] = SetInsert(@, source_id)]

\* Arena::get_by_name: the ids the library lists under name, None when the
\* library has no such key
get_by_name(a, name) ==
    IF LibHas(a.library, name)
    THEN Some((CHOOSE e \in Range(a.library) : e.name = name).ids)
    ELSE None

\* DefinitionNode::set_name: the name is written in place, the library is
\* not touched
set_name(a, id, name) == [a EXCEPT !.nodes[id + 1].name = name]

\* Arena::set_parent
set_parent(a, id, parent_id) == [a EXCEPT !.nodes[id + 1].parent = Some(parent_id)]

\* Arena::set_node_start_point
set_node_start_point(a, id, line, col) ==
    [a EXCEPT !.nodes[id + 1].start_point = Some(<<line, col>>)]

\* set_child without its assertion
AttachAllowed_Any(parent_type, child_type) == TRUE

\* the assert! of Arena::set_child
AttachAllowed(parent_type, child_type) ==
    \/ parent_type = "Virtual"
    \/ child_type = "Virtual"
    \/ TypeGe(parent_type, child_type)

\* should_set_source of Arena::set_child
ShouldSetSource(flag, parent_type, child_type) ==
    /\ flag
    /\ TypeLe(child_type, "File")
    /\ parent_type \in {"Mod", "File"}

\* should_set_parent of Arena::set_child
ShouldSetParent(parent_type) == parent_type # "Virtual"

\* set_child with the assertion after the writes
set_child_CheckLast(a, parent, key, value, flag) ==
    LET pt == Node(a, parent).node_type
        ct == Node(a, value).node_type
        a1 == IF ShouldSetSource(flag, pt, ct) THEN set_source(a, value, parent) ELSE a
        a2 == IF ShouldSetParent(pt) THEN set_parent(a1, value, parent) ELSE a1
        a3 == [a2 EXCEPT !.nodes[parent + 1].children = MapInsert(@, key, value)]
    IN  IF a.halted THEN a
        ELSE IF ~AttachAllowed(pt, ct) THEN [a3 EXCEPT !.halted = TRUE]
        ELSE a3

\* Arena::set_child.  A failed assertion panics before anything is written.
set_child(a, parent, key, value, flag) ==
    LET pt == Node(a, parent).node_type
        ct == Node(a, value).node_type
        a1 == IF ShouldSetSource(flag, pt, ct) THEN set_source(a, value, parent) ELSE a
        a2 == IF ShouldSetParent(pt) THEN set_parent(a1, value, parent) ELSE a1
    IN  IF a.halted THEN a
        ELSE IF ~AttachAllowed(pt, ct) THEN [a EXCEPT !.halted = TRUE]
        ELSE [a2 EXCEPT !.nodes[parent + 1].children = MapInsert(@, key, value)]

\* the clone of extend with the id left as it was in the other arena
ShiftNode_KeepId(n, base_len) ==
    [n EXCEPT !.parent = IF IsSome(@) THEN Some(Unwrap(@) + base_len) ELSE None,
              !.children = [i \in 1..Len(@) |->
                               [key |-> @[i].key, id |-> @[i].id + base_len]],
              !.sources = n.id + base_len]

\* the clone of extend with the parent left as it was in the other arena
ShiftNode_KeepParent(n, base_len) ==
    [n EXCEPT !.id = @ + base_len,
              !.children = [i \in 1..Len(@) |->
                               [key |-> @[i].key, id |-> @[i].id + base_len]],
              !.sources = n.id + base_len]

\* one node of Arena::extend: ids, parent and children shifted by base_len
ShiftNode(n, base_len) ==
    [n EXCEPT !.id = @ + base_len,
              !.parent = IF IsSome(@) THEN Some(Unwrap(@) + base_len) ELSE None,
              !.children = [i \in 1..Len(@) |->
                               [key |-> @[i].key, id |-> @[i].id + base_len]],
              !.sources = n.id + base_len]

\* Arena::extend: every node of other is appended with a fresh provenance Arc
\* holding the shifted content of the set it referenced in other.
RECURSIVE ExtendFrom(_, _, _, _)
ExtendFrom(a, other, base_len, i) ==
    IF i > Len(other.nodes) THEN a
    ELSE LET n == other.nodes[i]
             old_sources == other.sets[n.sources + 1]
             node == ShiftNode(n, base_len)
         IN ExtendFrom(
              [a EXCEPT !.nodes = Append(@, node),
                        !.sets = Append(@, [j \in 1..Len(old_sources) |->
                                               old_sources[j] + base_len]),
                        !.library = LibPush(@, node.name, node.id)],
              other, base_len, i + 1)

extend(a, other) == ExtendFrom(a, other, ArenaLen(a), 1)

\* BaseNode::has_conflict
has_conflict(a, id) == Len(SourcesOf(a, id)) > 1

----------------------------------------------------------------------------
(* Tree facade: DefinitionNode                                             *)

Dot == <<".">>

\* NON_CONFLICTING_KEYWORDS
NON_CONFLICTING_KEYWORDS == { <<"n","a","m","e","s","p","a","c","e">> }

\* DefinitionNode::get
get(a, self, key) == MapGet(Node(a, self).children, key)

\* the walk that takes "." for a key like any other
RECURSIVE GetByDirFrom_NoSkip(_, _, _, _)
GetByDirFrom_NoSkip(a, curr_id, parts, default) ==
    IF parts = <<>> THEN Some(curr_id)
    ELSE LET child == MapGet(Node(a, curr_id).children, Head(parts))
         IN IF child = None THEN default
            ELSE GetByDirFrom_NoSkip(a, Unwrap(child), Tail(parts), default)

\* DefinitionNode::get_by_dir: Some(id) of the node reached, default when a
\* segment is missing.  parts is what is left of dir.
RECURSIVE GetByDirFrom(_, _, _, _)
GetByDirFrom(a, curr_id, parts, default) ==
    IF parts = <<>> THEN Some(curr_id)
    ELSE IF Head(parts) = Dot THEN GetByDirFrom(a, curr_id, Tail(parts), default)
    ELSE LET child == MapGet(Node(a, curr_id).children, Head(parts))
         IN IF child = None THEN default
            ELSE GetByDirFrom(a, Unwrap(child), Tail(parts), default)

get_by_dir(a, self, dir, default) == GetByDirFrom(a, self, dir, default)

\* DefinitionNode::setdefault: the arena afterwards and the id returned
setdefault(a, self, key, default) ==
    LET existing == get(a, self, key) IN
    IF IsSome(existing) THEN [a |-> a, id |-> Unwrap(existing)]
    ELSE LET a1 == IF IsSome(default) THEN a
                   ELSE new_node(a, key, Join(Node(a, self).rel_dir, key), None)
             value == IF IsSome(default) THEN Unwrap(default) ELSE ArenaLen(a)
         IN [a |-> set_child(a1, self, key, value, TRUE), id |-> value]

\* the loop of DefinitionNode::setdefault_by_dir from part i on
RECURSIVE SetDefaultByDirFrom(_, _, _, _, _)
SetDefaultByDirFrom(a, curr_id, parts, i, default_name) ==
    IF i > Len(parts) \/ a.halted THEN [a |-> a, id |-> curr_id]
    ELSE LET key == parts[i]
             is_last == (i = Len(parts))
             existing_child == MapGet(Node(a, curr_id).children, key)
             node_name == IF is_last THEN default_name ELSE key
             node_id == ArenaLen(a)
             a1 == new_node(a, node_name, Join(Node(a, curr_id).rel_dir, key), None)
             a2 == set_child(a1, curr_id, key, node_id, TRUE)
         IN IF IsSome(existing_child)
            THEN SetDefaultByDirFrom(a, Unwrap(existing_child), parts, i + 1, default_name)
            ELSE SetDefaultByDirFrom(a2, node_id, parts, i + 1, default_name)

\* DefinitionNode::setdefault_by_dir
setdefault_by_dir(a, self, dir, default_name) ==
    SetDefaultByDirFrom(a, self, dir, 1, default_name)

\* the loop of DefinitionNode::set_by_dir from part i on
RECURSIVE SetByDirFrom(_, _, _, _, _)
SetByDirFrom(a, curr_id, parts, i, value) ==
    IF i > Len(parts) \/ a.halted THEN a
    ELSE LET key == parts[i]
             is_last == (i = Len(parts))
             existing_child == MapGet(Node(a, curr_id).children, key)
             node_id == IF is_last THEN value ELSE ArenaLen(a)
             a1 == IF is_last THEN a
                   ELSE new_node(a, key, Join(Node(a, curr_id).rel_dir, key), None)
             a2 == set_child(a1, curr_id, key, node_id, TRUE)
         IN IF IsSome(existing_child)
            THEN SetByDirFrom(a, Unwrap(existing_child), parts, i + 1, value)
            ELSE SetByDirFrom(a2, node_id, parts, i + 1, value)

\* DefinitionNode::set_by_dir
set_by_dir(a, self, dir, value) == SetByDirFrom(a, self, dir, 1, value)

\* the loop of DefinitionNode::update over the snapshot of other's children
RECURSIVE UpdateFrom(_, _, _)
UpdateFrom(a, self, other_children) ==
    IF other_children = <<>> THEN a
    ELSE UpdateFrom(set_child(a, self, Head(other_children).key,
                              Head(other_children).id, TRUE),
                    self, Tail(other_children))

\* DefinitionNode::update
update(a, self, other) == UpdateFrom(a, self, Node(a, other).children)

\* the conflict test without the allow-list
IsConflict_NoAllowList(a, exist_id, other_id, key) ==
    /\ exist_id # other_id
    /\ Node(a, exist_id).sources # Node(a, other_id).sources
    /\ ~SetEq(SourcesOf(a, exist_id), SourcesOf(a, other_id))

\* The test of update_with_conflict_check on one key: the existing child is
\* another node, the two provenance Arcs are different objects, the sets
\* differ and the key is not allow-listed.
IsConflict(a, exist_id, other_id, key) ==
    /\ exist_id # other_id
    /\ Node(a, exist_id).sources # Node(a, other_id).sources
    /\ ~SetEq(SourcesOf(a, exist_id), SourcesOf(a, other_id))
    /\ key \notin NON_CONFLICTING_KEYWORDS

\* the conflict branch with the union copied into the incoming child's own
\* set instead of the Arc being shared
ShareSources_Copy(a, exist_id, other_id) ==
    LET union == SetExtend(SourcesOf(a, exist_id), SourcesOf(a, other_id))
        a1 == [a EXCEPT !.sets[Node(a, exist_id).sources + 1] = union,
                        !.sets[Node(a, other_id).sources + 1] = union]
    IN IF has_conflict(a1, exist_id) /\ has_conflict(a1, other_id)
       THEN a1
       ELSE [a1 EXCEPT !.halted = TRUE]

\* The conflict branch: the existing set takes the incoming elements, the
\* incoming child shares the existing Arc, then the assert! on has_conflict.
ShareSources(a, exist_id, other_id) ==
    LET a1 == [a EXCEPT !.sets[Node(a, exist_id).sources + 1] =
                            SetExtend(@, SourcesOf(a, other_id)),
                        !.nodes[other_id + 1].sources = Node(a, exist_id).sources]
    IN IF has_conflict(a1, exist_id) /\ has_conflict(a1, other_id)
       THEN a1
       ELSE [a1 EXCEPT !.halted = TRUE]

\* one iteration that keeps the existing child at a conflicting key
MergeKey_KeepExisting(r, self, key, other_id) ==
    LET a == r.a
        existing == get(a, self, key)
        hit == IsSome(existing) /\ IsConflict(a, Unwrap(existing), other_id, key)
    IN IF hit
       THEN [a |-> ShareSources(a, Unwrap(existing), other_id),
             conflicts |-> r.conflicts \cup {Join(Node(a, self).rel_dir, key)}]
       ELSE [a |-> set_child(a, self, key, other_id, TRUE), conflicts |-> r.conflicts]

\* One iteration of the loop of update_with_conflict_check
MergeKey(r, self, key, other_id) ==
    LET a == r.a
        existing == get(a, self, key)
        hit == IsSome(existing) /\ IsConflict(a, Unwrap(existing), other_id, key)
        a1 == IF hit THEN ShareSources(a, Unwrap(existing), other_id) ELSE a
    IN [a |-> set_child(a1, self, key, other_id, TRUE),
        conflicts |-> IF hit THEN r.conflicts \cup {Join(Node(a, self).rel_dir, key)}
                      ELSE r.conflicts]

RECURSIVE MergeFrom(_, _, _)
MergeFrom(r, self, other_children) ==
    IF other_children = <<>> \/ r.a.halted THEN r
    ELSE MergeFrom(MergeKey(r, self, Head(other_children).key, Head(other_children).id),
                   self, Tail(other_children))

\* the merge without the conflict check
update_with_conflict_check_NoCheck(a, self, other) ==
    [a |-> update(a, self, other), conflicts |-> {}]

\* DefinitionNode::set_source: a Virtual source fails the assertion, an
\* unexpected type order is only logged
node_set_source(a, self, source) ==
    IF Node(a, source).node_type = "Virtual" THEN [a EXCEPT !.halted = TRUE]
    ELSE set_source(a, self, source)

\* DefinitionNode::update_with_conflict_check: the arena afterwards and the
\* set of conflict paths (returned only when the call did not panic)
update_with_conflict_check(a, self, other) ==
    MergeFrom([a |-> a, conflicts |-> {}], self, Node(a, other).children)

\* DefinitionNode::get_sources
get_sources(a, id) == SourcesOf(a, id)

\* DefinitionNode::get_source
get_source(a, id) ==
    IF SourcesOf(a, id) = <<>> THEN None
    ELSE Some(SourcesOf(a, id)[Len(SourcesOf(a, id))])

\* DefinitionNode::get_super_sources_by_type (the provenance graph of the
\* states it is used on has no cycle)
RECURSIVE get_super_sources_by_type(_, _, _)
RECURSIVE SuperSourcesOver(_, _, _)
SuperSourcesOver(a, srcs, source_type) ==
    IF srcs = <<>> THEN <<>>
    ELSE (IF Node(a, Head(srcs)).node_type = source_type
          THEN <<Head(srcs)>>
          ELSE get_super_sources_by_type(a, Head(srcs), source_type))
         \o SuperSourcesOver(a, Tail(srcs), source_type)

get_super_sources_by_type(a, id, source_type) ==
    SuperSourcesOver(a, get_sources(a, id), source_type)

\* DefinitionNode::get_mod_sources: the Mod super sources, first occurrences
get_mod_sources(a, id) ==
    SetExtend(<<>>, SuperSourcesOver(a, get_sources(a, id), "Mod"))

----------------------------------------------------------------------------
(* Script and localization extraction (one private arena per file)         *)

\* Syntax-tree nodes as the external grammar hands them over.  Every node is
\* a record [kind, text, pos, children]: text is the token text of a
\* simple_value, the text of the key field of an assignment, the text of the
\* tag field of a tagged_array; pos is the start position of that token;
\* children are the child nodes (for an assignment the value field alone, for
\* a tagged_array its array).
Ts(kind, text, pos, children) ==
    [kind |-> kind, text |-> text, pos |-> pos, children |-> children]
TsSimple(text, pos) == Ts("simple_value", text, pos, <<>>)
TsArray(elems) == Ts("array", <<>>, <<0, 0>>, elems)
TsTagged(tag, arr) == Ts("tagged_array", tag, <<0, 0>>, <<arr>>)
TsMap(children) == Ts("map", <<>>, <<0, 0>>, children)
TsAssign(key, pos, value) == Ts("assignment", key, pos, <<value>>)
TsStatement(children) == Ts("statement", <<>>, <<0, 0>>, children)
TsSourceFile(children) == Ts("source_file", <<>>, <<0, 0>>, children)
\* child_by_field_name("key") / ("value") / ("tag")
KeyText(n) == n.text
KeyPos(n) == n.pos
ValueField(n) == n.children[1]
TagText(n) == n.text

\* extract_array_vals: the texts of the simple_value children, in order
RECURSIVE extract_array_vals(_)
extract_array_vals(children) ==
    IF children = <<>> THEN <<>>
    ELSE (IF Head(children).kind = "simple_value" THEN <<Head(children).text>> ELSE <<>>)
         \o extract_array_vals(Tail(children))

\* format!("{:?}", values) of a Vec<String>: ["a", "b"]
RECURSIVE DebugItems(_)
DebugItems(values) ==
    IF values = <<>> THEN <<>>
    ELSE <<"\"">> \o Head(values) \o <<"\"">>
         \o (IF Len(values) > 1 THEN <<",", " ">> ELSE <<>>)
         \o DebugItems(Tail(values))
DebugVec(values) == <<"[">> \o DebugItems(values) \o <<"]">>

\* A Value leaf named key is created beside root_node's rel_dir and attached
ValueLeaf(a, root_node, key, value) ==
    set_child(new_node(a, key, Node(a, root_node).rel_dir, Some(value)),
              root_node, key, ArenaLen(a), TRUE)

RECURSIVE _extract_script_definitions(_, _, _, _, _)
RECURSIVE ExtractChildren(_, _, _, _, _)
RECURSIVE ExtractStatement(_, _, _, _, _)

\* the loop of the "source_file" / "map" branch
ExtractChildren(a, children, root_node, max_depth, depth) ==
    IF children = <<>> \/ a.halted THEN a
    ELSE ExtractChildren(
            _extract_script_definitions(a, Head(children), root_node, max_depth, depth + 1),
            Tail(children), root_node, max_depth, depth)

\* the loop of the "statement" branch
ExtractStatement(a, children, root_node, max_depth, depth) ==
    IF children = <<>> \/ a.halted THEN a
    ELSE LET child == Head(children)
             value_node == ArenaLen(a)
             a1 == new_node(a, child.text, Node(a, root_node).rel_dir, Some(child.text))
             a2 == set_node_start_point(a1, value_node, child.pos[1], child.pos[2])
             a3 == set_child(a2, root_node, child.text, value_node, TRUE)
         IN ExtractStatement(
              IF child.kind = "simple_value" THEN a3
              ELSE _extract_script_definitions(a, child, root_node, max_depth, depth + 1),
              Tail(children), root_node, max_depth, depth)

\* the "assignment" / "typed_assignment" branch
ExtractAssignment(a, ts_node, root_node, max_depth, depth) ==
    LET key == KeyText(ts_node)
        v == ValueField(ts_node)
        child_node == ArenaLen(a)
        a1 == CASE v.kind = "simple_value" -> ValueLeaf(a, root_node, key, v.text)
                [] v.kind = "array" ->
                     ValueLeaf(a, root_node, key, DebugVec(extract_array_vals(v.children)))
                [] v.kind = "tagged_array" ->
                     ValueLeaf(a, root_node, key,
                               TagText(v) \o DebugVec(extract_array_vals(ValueField(v).children)))
                [] OTHER ->
                     set_child(
                        _extract_script_definitions(
                            new_node(a, key, Node(a, root_node).rel_dir, None),
                            v, child_node, max_depth, depth + 1),
                        root_node, key, child_node, TRUE)
    IN IF a1.halted THEN a1
       ELSE set_node_start_point(a1, root_node, KeyPos(ts_node)[1], KeyPos(ts_node)[2])

_extract_script_definitions(a, ts_node, root_node, max_depth, depth) ==
    IF a.halted THEN a
    ELSE IF max_depth > 0 /\ depth > max_depth THEN a
    ELSE IF ts_node.kind \in {"{", "}", "{}", ""} THEN a
    ELSE IF ts_node.kind = "statement"
         THEN ExtractStatement(a, ts_node.children, root_node, max_depth, depth)
    ELSE IF ts_node.kind \in {"source_file", "map"}
         THEN ExtractChildren(a, ts_node.children, root_node, max_depth, depth)
    ELSE IF ts_node.kind \in {"assignment", "typed_assignment"}
         THEN ExtractAssignment(a, ts_node, root_node, max_depth, depth)
    ELSE a

\* _extract_loc_definitions over the lines of the text; a line the pattern
\* matches is given as [matches |-> TRUE, key, value], any other line with
\* matches = FALSE
RECURSIVE ExtractLocFrom(_, _, _)
ExtractLocFrom(a, lines, line_number) ==
    IF line_number >= Len(lines) \/ a.halted THEN a
    ELSE LET l == lines[line_number + 1]
             value_node == ArenaLen(a)
             a1 == new_node(a, l.key, Node(a, 0).rel_dir, Some(l.value))
             a2 == set_node_start_point(a1, value_node, line_number, 0)
             a3 == set_child(a2, 0, l.key, value_node, TRUE)
         IN ExtractLocFrom(IF l.matches THEN a3 ELSE a, lines, line_number + 1)

_extract_loc_definitions(a, lines) == ExtractLocFrom(a, lines, 0)

\* the host's two root directories
workshop_dir == << <<"W">> >>
mods_dir == << <<"M">> >>

\* get_file_name
get_file_name(file) ==
    IF FileName(file) = None THEN <<"u","n","k","n","o","w","n">>
    ELSE Unwrap(FileName(file))

\* Path::strip_prefix followed by dropping the first component left
StripFirst(file, prefix) ==
    SubSeq(file, Len(prefix) + 2, Len(file))

\* get_rel_dir
get_rel_dir(file) ==
    IF StartsWith(file, workshop_dir) THEN StripFirst(file, workshop_dir)
    ELSE IF StartsWith(file, mods_dir) THEN StripFirst(file, mods_dir)
    ELSE <<get_file_name(file)>>

\* extract_definitions_worker: f is a file on disk, [path, ts, lines], ts
\* being what parse_paradox_script makes of its text and lines its text by
\* line
extract_definitions_worker(f, max_depth) ==
    LET file_type == PathExtension(f.path)
        a == new_node(NewArena, get_file_name(f.path), get_rel_dir(f.path), None)
    IN  IF file_type = Some(<<"t","x","t">>)
        THEN _extract_script_definitions(a, f.ts, 0, max_depth, 0)
        ELSE IF file_type = Some(<<"y","m","l">>)
        THEN _extract_loc_definitions(a, f.lines)
        ELSE a

----------------------------------------------------------------------------
(* Discovery: DefinitionExtractor::_collect_mod_files                      *)

\* DefinitionExtractor.language: the constructor's default
language == Some(<<"e","n","g","l","i","s","h">>)

IgnoredTopLevel == { <<".","g","i","t">>, <<"s","r","c">>,
                     <<".","v","s","c","o","d","e">> }
LocalizationDir == <<"l","o","c","a","l","i","z","a","t","i","o","n">>
Txt == <<"t","x","t">>
Yml == <<"y","m","l">>

\* Path::to_str: the components joined by the separator
RECURSIVE PathText(_)
PathText(p) ==
    IF p = <<>> THEN <<>>
    ELSE IF Len(p) = 1 THEN p[1]
    ELSE p[1] \o <<"/">> \o PathText(Tail(p))

\* str::contains
Contains(hay, needle) ==
    \E i \in 0..(Len(hay) - Len(needle)) : SubSeq(hay, i + 1, i + Len(needle)) = needle

\* entry.path().strip_prefix(&mod_dir).unwrap_or(entry.path())
RelPath(mod_dir, path) ==
    IF StartsWith(path, mod_dir) THEN SubSeq(path, Len(mod_dir) + 1, Len(path))
    ELSE path

\* The bucket _collect_mod_files puts a regular file into: "txt", "yml",
\* "other", or "skip" when the loop continues without recording it.
Bucket(mod_dir, path) ==
    LET rel_path == RelPath(mod_dir, path)
        file_type == PathExtension(path)
    IN  IF Len(rel_path) <= 1 THEN "skip"
        ELSE IF rel_path[1] \in IgnoredTopLevel THEN "skip"
        ELSE IF rel_path[1] = LocalizationDir
             THEN IF file_type = Some(Yml)
                  THEN IF IsSome(language)
                       THEN IF Contains(ToAsciiLowercase(PathText(rel_path)),
                                        ToAsciiLowercase(Unwrap(language)))
                            THEN "yml" ELSE "other"
                       ELSE "yml"
                  ELSE "skip"
        ELSE IF file_type = Some(Txt) THEN "txt"
        ELSE "other"

EmptyFileMap == [txt |-> <<>>, yml |-> <<>>, other |-> <<>>]

\* file_map.entry(key).or_insert(..): ids and paths pushed side by side
PushFile(file_map, key, node_id, file) ==
    IF key = "skip" THEN file_map
    ELSE [file_map EXCEPT ![key] = Append(@, [mod_id |-> node_id, file |-> file])]

\* _collect_mod_files(mod_data) over the regular files the walk yields
RECURSIVE CollectFrom(_, _, _)
CollectFrom(file_map, mod_data, files) ==
    IF files = <<>> THEN file_map
    ELSE CollectFrom(PushFile(file_map, Bucket(mod_data.path, Head(files).path),
                              mod_data.node_id, Head(files)),
                     mod_data, Tail(files))

_collect_mod_files(mod_data, files) == CollectFrom(EmptyFileMap, mod_data, files)

\* the reduce of collect_mod_files_multithread
MergeFileMaps(acc, map) ==
    [txt |-> acc.txt \o map.txt, yml |-> acc.yml \o map.yml,
     other |-> acc.other \o map.other]

\* collect_mod_files_multithread: the mods in the order of mod_data, walks[i]
\* being what the walk of the i-th mod's directory yields
RECURSIVE CollectAllFrom(_, _, _)
CollectAllFrom(mod_data_list, walks, i) ==
    IF i > Len(mod_data_list) THEN EmptyFileMap
    ELSE MergeFileMaps(_collect_mod_files(mod_data_list[i], walks[i]),
                       CollectAllFrom(mod_data_list, walks, i + 1))

collect_mod_files_multithread(a, walks) == CollectAllFrom(a.mod_data, walks, 1)

\* _extract_definitions_multiprocess: one arena per file, in file order
_extract_definitions_multiprocess(files, max_depth) ==
    [i \in 1..Len(files) |-> extract_definitions_worker(files[i].file, max_depth)]

----------------------------------------------------------------------------
(* Fold: the loops of DefinitionExtractor::extract_definitions             *)

DefName == <<"<","d","e","f",">">>
LocName == <<"<","l","o","c",">">>
RootName == <<"<","r","o","o","t",">">>

\* mod_data.get(mod_id)
ModDataOf(a, mod_id) ==
    a.mod_data[CHOOSE i \in 1..Len(a.mod_data) : a.mod_data[i].node_id = mod_id]

\* The aggregate link of one fold: the container "<def>" / "<loc>" beside
\* the file is created when missing and the file root merged into it.
\* skip: the mod's content is left out; check: merge with conflict check.
LinkAggregate(a, root_id, marker, skip, check) ==
    LET rel_dir == Node(a, root_id).rel_dir
        agg_path == Join(Unwrap(PathParent(rel_dir)), marker)
        a1 == setdefault_by_dir(a, 0, agg_path, marker).a
        agg_node == get_by_dir(a1, 0, agg_path, None)
        merged == update_with_conflict_check(a1, Unwrap(agg_node), root_id)
    IN  IF a.halted \/ PathParent(rel_dir) = None THEN [a |-> a, conflicts |-> {}]
        ELSE IF a1.halted \/ agg_node = None \/ skip THEN [a |-> a1, conflicts |-> {}]
        ELSE IF ~check THEN [a |-> update(a1, Unwrap(agg_node), root_id), conflicts |-> {}]
        ELSE IF merged.a.halted THEN [a |-> merged.a, conflicts |-> {}]
        ELSE merged

\* the literal-path link that always goes through set_by_dir
LinkPath_NoMerge(a, root_id, mod_id) ==
    IF a.halted THEN a ELSE set_by_dir(a, 0, Node(a, root_id).rel_dir, root_id)

\* The literal-path link of one fold
LinkPath(a, root_id, mod_id) ==
    LET rel_dir == Node(a, root_id).rel_dir
        existing_file_node == get_by_dir(a, 0, rel_dir, None)
    IN  IF a.halted THEN a
        ELSE IF IsSome(existing_file_node)
        THEN update(set_source(a, Unwrap(existing_file_node), mod_id),
                    Unwrap(existing_file_node), root_id)
        ELSE set_by_dir(a, 0, rel_dir, root_id)

\* One iteration of the txt loop / of the yml loop up to the aggregate link:
\* the file's arena is appended, the mod recorded as the source of its root,
\* the root merged into the aggregate container
FoldAggregate(a, mod_id, file_arena, marker, skip, check) ==
    LET root_id == ArenaLen(a)
        a1 == set_source(extend(a, file_arena), root_id, mod_id)
    IN LinkAggregate(a1, root_id, marker, skip, check)

\* One iteration of the txt loop / of the yml loop: the arena afterwards and
\* the conflict paths added to self.conflicts
FoldFile(a, mod_id, file_arena, marker, skip, check) ==
    LET agg == FoldAggregate(a, mod_id, file_arena, marker, skip, check)
    IN [a |-> LinkPath(agg.a, ArenaLen(a), mod_id), conflicts |-> agg.conflicts]

FoldTxtFile(a, mod_id, file_arena, check_script) ==
    FoldFile(a, mod_id, file_arena, DefName, ~ModDataOf(a, mod_id).enabled, check_script)

FoldYmlFile(a, mod_id, file_arena, check_loc) ==
    FoldFile(a, mod_id, file_arena, LocName, FALSE, check_loc)

\* One iteration of the loop over the "other" files
FoldOtherFile(a, mod_id, file) ==
    LET file_name == get_file_name(file.path)
        rel_dir == get_rel_dir(file.path)
        existing_file_node == get_by_dir(a, 0, rel_dir, None)
        file_node_id == ArenaLen(a)
        a1 == set_by_dir(new_node(a, file_name, rel_dir, None), 0, rel_dir, file_node_id)
    IN  IF IsSome(existing_file_node)
        THEN set_source(a, Unwrap(existing_file_node), mod_id)
        ELSE IF a1.halted THEN a1
        ELSE set_source(a1, file_node_id, mod_id)

\* DefinitionExtractor::enroll_mods
RECURSIVE enroll_mods(_, _)
enroll_mods(a, mod_list) ==
    IF mod_list = <<>> THEN a
    ELSE enroll_mods(new_mod(a, Head(mod_list).name, Head(mod_list).enabled,
                             Head(mod_list).load_order, Head(mod_list).path),
                     Tail(mod_list))

\* DefinitionExtractor::new: the arena holds the root alone
ExtractorArena == new_node(NewArena, RootName, <<Dot>>, None)

----------------------------------------------------------------------------
(* The pipeline as a state machine                                         *)

\* Bound: the number of files on disk, over all mods
MaxFiles == 3

Ch(c) == <<c>>
KeyX == <<"x">>
KeyY == <<"y">>
KeyA == <<"a">>
KeyK == <<"k">>
DirCommon == <<"c">>
DirGfx == <<"g">>
DirEnglish == <<"e","n","g","l","i","s","h">>
FooTxt == <<"f",".","t","x","t">>
BarTxt == <<"b",".","t","x","t">>
LocYml == <<"l",".","y","m","l">>
PicDds == <<"a",".","d","d","s">>

\* x = 1
ScriptX == TsSourceFile(<< TsAssign(KeyX, <<0, 0>>, TsSimple(Ch("1"), <<0, 4>>)) >>)
\* x = { a = 1 }
\* y = 2
ScriptXY ==
    TsSourceFile(<<
        TsAssign(KeyX, <<0, 0>>,
                 TsMap(<< Ts("{", <<>>, <<0, 4>>, <<>>),
                          TsAssign(KeyA, <<0, 6>>, TsSimple(Ch("1"), <<0, 10>>)),
                          Ts("}", <<>>, <<0, 12>>, <<>>) >>)),
        TsAssign(KeyY, <<1, 0>>, TsSimple(Ch("2"), <<1, 4>>)) >>)
NoScript == TsSourceFile(<<>>)

\* k:0 "v"
LocK == << [matches |-> TRUE, key |-> KeyK, value |-> Ch("v")] >>

\* The files a mod may hold, by path below the mod's directory
FileTemplates ==
    { [rel |-> <<DirCommon, FooTxt>>, ts |-> ScriptX, lines |-> <<>>],
      [rel |-> <<DirCommon, FooTxt>>, ts |-> ScriptXY, lines |-> <<>>],
      [rel |-> <<DirCommon, BarTxt>>, ts |-> ScriptX, lines |-> <<>>],
      [rel |-> <<LocalizationDir, DirEnglish, LocYml>>, ts |-> NoScript, lines |-> LocK],
      [rel |-> <<DirGfx, PicDds>>, ts |-> NoScript, lines |-> <<>>] }

\* What a walk can yield: files at distinct paths, in any order
Walks ==
    { w \in UNION { [1..n -> FileTemplates] : n \in 0..MaxFiles } :
        \A i, j \in 1..Len(w) : i # j => w[i].rel # w[j].rel }

ModDirA == workshop_dir \o << Ch("1") >>
ModDirB == mods_dir \o << Ch("b") >>

OnDisk(mod_dir, w) ==
    [i \in 1..Len(w) |-> [path |-> mod_dir \o w[i].rel, ts |-> w[i].ts, lines |-> w[i].lines]]

\* The depth limits extract_definitions is called with
DepthLimits == {-1}

\* the conflict-check switches as DefinitionExtractor::new sets them
CHECK_LOC_CONFLICTS == FALSE
CHECK_SCRIPT_CONFLICTS == TRUE

InitFold ==
    /\ arena = ExtractorArena
    /\ conflicts = {}
    /\ check_script_conflicts = CHECK_SCRIPT_CONFLICTS
    /\ check_loc_conflicts = CHECK_LOC_CONFLICTS
    /\ \E ea, eb \in BOOLEAN, lo \in {<<0, 1>>, <<1, 0>>} :
         modList = << [name |-> Ch("A"), enabled |-> ea, load_order |-> lo[1], path |-> ModDirA],
                      [name |-> Ch("B"), enabled |-> eb, load_order |-> lo[2], path |-> ModDirB] >>
    /\ \E wa, wb \in Walks :
         /\ Len(wa) + Len(wb) <= MaxFiles
         /\ disk = << OnDisk(ModDirA, wa), OnDisk(ModDirB, wb) >>
    /\ pc = "new"
    /\ mod_files = EmptyFileMap
    /\ extracted = <<>>
    /\ idx = 0
    /\ folds = <<>>
    /\ last = [op |-> "new", args |-> <<>>, ret |-> {}]
    /\ lock = FreeLock
    /\ threads = NoThreads

\* enroll_mods(mod_list)
EnrollMods ==
    /\ pc = "new"
    /\ arena' = enroll_mods(arena, modList)
    /\ pc' = "enrolled"
    /\ last' = [op |-> "enroll_mods", args |-> <<>>, ret |-> {}]
    /\ UNCHANGED <<lock, threads, conflicts, check_script_conflicts, check_loc_conflicts, modList,
                   disk, mod_files, extracted, idx, folds>>

\* A panic in a worker or in a fold step ends extract_definitions
Outcome(a, next) == IF a.halted THEN "aborted" ELSE next
AnyHalted(arenas) == \E i \in 1..Len(arenas) : arenas[i].halted

\* extract_definitions up to the txt loop: discovery, then the extraction of
\* the txt bucket
CollectAndExtractTxt ==
    /\ pc = "enrolled"
    /\ \E max_depth \in DepthLimits :
         LET found == collect_mod_files_multithread(arena, disk)
             arenas == _extract_definitions_multiprocess(found.txt, max_depth)
         IN /\ mod_files' = found
            /\ extracted' = arenas
            /\ pc' = IF AnyHalted(arenas) THEN "aborted" ELSE "txt"
            /\ last' = [op |-> "collect", args |-> <<max_depth>>, ret |-> {}]
    /\ idx' = 0
    /\ UNCHANGED <<lock, threads, arena, conflicts, check_script_conflicts, check_loc_conflicts,
                   modList, disk, folds>>

\* The children of a per-file arena's root as extend appends them at base_len
TopLevel(file_arena, base_len) == ShiftNode(file_arena.nodes[1], base_len).children

\* one iteration of the txt loop
FoldTxt ==
    /\ pc = "txt"
    /\ idx < Len(mod_files.txt)
    /\ LET mod_id == mod_files.txt[idx + 1].mod_id
           r == FoldTxtFile(arena, mod_id, extracted[idx + 1], check_script_conflicts)
       IN /\ arena' = r.a
          /\ conflicts' = conflicts \cup r.conflicts
          /\ pc' = Outcome(r.a, "txt")
          /\ folds' = Append(folds, [mod_id |-> mod_id, bucket |-> "txt",
                                     root |-> ArenaLen(arena),
                                     len |-> ArenaLen(extracted[idx + 1]),
                                     top |-> TopLevel(extracted[idx + 1], ArenaLen(arena))])
          /\ last' = [op |-> "fold_txt", args |-> <<mod_id, ArenaLen(arena)>>,
                      ret |-> r.conflicts]
    /\ idx' = idx + 1
    /\ UNCHANGED <<lock, threads, check_script_conflicts, check_loc_conflicts, modList, disk,
                   mod_files, extracted>>

\* the txt loop is over: the extraction of the yml bucket
ExtractYml ==
    /\ pc = "txt"
    /\ idx = Len(mod_files.txt)
    /\ LET arenas == _extract_definitions_multiprocess(mod_files.yml, last.args[1])
       IN /\ extracted' = arenas
          /\ pc' = IF AnyHalted(arenas) THEN "aborted" ELSE "yml"
    /\ idx' = 0
    /\ UNCHANGED <<lock, threads, arena, conflicts, check_script_conflicts, check_loc_conflicts,
                   modList, disk, mod_files, folds, last>>

\* one iteration of the yml loop
FoldYml ==
    /\ pc = "yml"
    /\ idx < Len(mod_files.yml)
    /\ LET mod_id == mod_files.yml[idx + 1].mod_id
           r == FoldYmlFile(arena, mod_id, extracted[idx + 1], check_loc_conflicts)
       IN /\ arena' = r.a
          /\ conflicts' = conflicts \cup r.conflicts
          /\ pc' = Outcome(r.a, "yml")
          /\ folds' = Append(folds, [mod_id |-> mod_id, bucket |-> "yml",
                                     root |-> ArenaLen(arena),
                                     len |-> ArenaLen(extracted[idx + 1]),
                                     top |-> TopLevel(extracted[idx + 1], ArenaLen(arena))])
          /\ last' = [op |-> "fold_yml", args |-> <<mod_id, ArenaLen(arena)>>,
                      ret |-> r.conflicts]
    /\ idx' = idx + 1
    /\ UNCHANGED <<lock, threads, check_script_conflicts, check_loc_conflicts, modList, disk,
                   mod_files, extracted>>

\* the yml loop is over
StartOther ==
    /\ pc = "yml"
    /\ idx = Len(mod_files.yml)
    /\ pc' = "other"
    /\ idx' = 0
    /\ extracted' = <<>>
    /\ UNCHANGED <<lock, threads, arena, conflicts, check_script_conflicts, check_loc_conflicts,
                   modList, disk, mod_files, folds, last>>

\* one iteration of the loop over the other files
FoldOther ==
    /\ pc = "other"
    /\ idx < Len(mod_files.other)
    /\ LET mod_id == mod_files.other[idx + 1].mod_id
           a == FoldOtherFile(arena, mod_id, mod_files.other[idx + 1].file)
       IN /\ arena' = a
          /\ pc' = Outcome(a, "other")
          /\ folds' = Append(folds, [mod_id |-> mod_id, bucket |-> "other",
                                     root |-> ArenaLen(arena),
                                     len |-> ArenaLen(a) - ArenaLen(arena),
                                     top |-> <<>>])
          /\ last' = [op |-> "fold_other", args |-> <<mod_id, ArenaLen(arena)>>, ret |-> {}]
    /\ idx' = idx + 1
    /\ UNCHANGED <<lock, threads, conflicts, check_script_conflicts, check_loc_conflicts, modList,
                   disk, mod_files, extracted>>

\* extract_definitions returns the root
FinishExtract ==
    /\ pc = "other"
    /\ idx = Len(mod_files.other)
    /\ pc' = "done"
    /\ UNCHANGED <<lock, threads, arena, conflicts, check_script_conflicts, check_loc_conflicts,
                   modList, disk, mod_files, extracted, idx, folds, last>>

NextFold ==
    \/ EnrollMods
    \/ CollectAndExtractTxt
    \/ FoldTxt
    \/ ExtractYml
    \/ FoldYml
    \/ StartOther
    \/ FoldOther
    \/ FinishExtract

SpecFold == InitFold /\ [][NextFold]_vars

----------------------------------------------------------------------------
(* Vocabulary of the properties of the pipeline                            *)

TxtFolds == { i \in 1..Len(folds) : folds[i].bucket = "txt" }
YmlFolds == { i \in 1..Len(folds) : folds[i].bucket = "yml" }
FoldEnabled(i) == ModDataOf(arena, folds[i].mod_id).enabled
FoldLoadOrder(i) == ModDataOf(arena, folds[i].mod_id).load_order
\* the relative path of the file of fold i, and its directory
FoldRelDir(i) == Node(arena, folds[i].root).rel_dir
FoldDir(i) == Unwrap(PathParent(FoldRelDir(i)))
\* the top-level keys of the file of fold i, and its node at a key
FoldKeys(i) == MapKeys(folds[i].top)
FoldNodeAt(i, key) == Unwrap(MapGet(folds[i].top, key))
\* node id was appended by fold i
FromFold(id, i) == folds[i].root <= id /\ id < folds[i].root + folds[i].len
\* the aggregate container of a directory, None while there is none
Aggregate(dir, marker) == get_by_dir(arena, 0, Join(dir, marker), None)
\* the path of a key under the aggregate container of a directory, as the
\* merge records it
AggregateKeyPath(dir, marker, key) ==
    Join(Node(arena, Unwrap(Aggregate(dir, marker))).rel_dir, key)
\* every id that is an aggregate container
Aggregates == { id \in Ids(arena) : Node(arena, id).name \in {DefName, LocName} }

\* Folds i and j are script files of two enabled mods at the same relative
\* path, the mod of i earlier in load order
SamePathPair(i, j) ==
    /\ i \in TxtFolds /\ j \in TxtFolds
    /\ folds[i].mod_id # folds[j].mod_id
    /\ FoldEnabled(i) /\ FoldEnabled(j)
    /\ FoldLoadOrder(i) < FoldLoadOrder(j)
    /\ FoldRelDir(i) = FoldRelDir(j)

\* Folds i and j are script files of two enabled mods in the same directory,
\* the mod of i earlier in load order
SameDirPair(i, j) ==
    /\ i \in TxtFolds /\ j \in TxtFolds
    /\ folds[i].mod_id # folds[j].mod_id
    /\ FoldEnabled(i) /\ FoldEnabled(j)
    /\ FoldLoadOrder(i) < FoldLoadOrder(j)
    /\ FoldDir(i) = FoldDir(j)

----------------------------------------------------------------------------
(* C2 *)

\* C2: after a run with script conflict checking on in which the file of
\* mod A (earlier in load order) was folded before the file of mod B at the
\* same relative path, for every top-level key both files define: the path
\* of the key under the directory's <def> container is in the conflict set,
\* the <def> child at the key is a node of a file of B, and get_mod_sources
\* of that child is A and B.
C2_OverrideRecorded ==
    (pc = "done" /\ check_script_conflicts) =>
        \A i, j \in TxtFolds :
            (SamePathPair(i, j) /\ i < j) =>
                \A key \in FoldKeys(i) \cap FoldKeys(j) :
                    LET def == Unwrap(Aggregate(FoldDir(j), DefName))
                        child == Unwrap(get(arena, def, key))
                    IN /\ AggregateKeyPath(FoldDir(j), DefName, key) \in conflicts
                       /\ \E l \in TxtFolds :
                            folds[l].mod_id = folds[j].mod_id /\ FromFold(child, l)
                       /\ (\A l \in TxtFolds : l > j => FoldDir(l) # FoldDir(j))
                             => child = FoldNodeAt(j, key)
                       /\ Range(get_mod_sources(arena, child))
                             = {folds[i].mod_id, folds[j].mod_id}

C2_Witness ==
    /\ pc = "done" /\ check_script_conflicts
    /\ \E i, j \in TxtFolds :
         SamePathPair(i, j) /\ i < j /\ FoldKeys(i) \cap FoldKeys(j) # {}

----------------------------------------------------------------------------
(* C3 *)

\* C3: the files are folded in ascending load order whatever the order of
\* enrollment: of two script files of enabled mods in one directory, the one
\* of the mod earlier in load order is folded first, and for every key both
\* define the <def> child is a node of the mod later in load order.
C3_FoldsInLoadOrder ==
    pc = "done" =>
        \A i, j \in TxtFolds :
            SameDirPair(i, j) =>
                /\ i < j
                /\ \A key \in FoldKeys(i) \cap FoldKeys(j) :
                     LET def == Unwrap(Aggregate(FoldDir(j), DefName))
                         child == Unwrap(get(arena, def, key))
                     IN \E l \in TxtFolds :
                          folds[l].mod_id = folds[j].mod_id /\ FromFold(child, l)

----------------------------------------------------------------------------
(* C9 *)

LastIsFold == last.op \in {"fold_txt", "fold_yml"}
\* the fold step just taken is the last entry of folds
LastFold == Len(folds)

\* C9: no child of a <def> or <loc> container is a node of a file of a
\* disabled mod, the fold of a file of a disabled mod adds no conflict path,
\* and the content of that file is linked under its literal path.
C9_DisabledExcluded ==
    /\ pc = "done" =>
       \A c \in Aggregates :
         \A e \in Range(Node(arena, c).children) :
            \A i \in TxtFolds \cup YmlFolds : FromFold(e.id, i) => FoldEnabled(i)
    /\ (LastIsFold /\ pc # "aborted" /\ ~FoldEnabled(LastFold)) =>
         /\ last.ret = {}
         /\ LET at_path == get_by_dir(arena, 0, FoldRelDir(LastFold), None)
            IN /\ IsSome(at_path)
               /\ \A e \in Range(folds[LastFold].top) :
                    get(arena, Unwrap(at_path), e.key) = Some(e.id)

----------------------------------------------------------------------------
(* C10 *)

\* the step is one iteration of the txt or of the yml loop
IsFoldStep == pc \in {"txt", "yml"} /\ idx' = idx + 1
\* the mod and the per-file arena of the iteration about to run
StepModId == mod_files[pc][idx + 1].mod_id
\* the iteration about to run, up to its aggregate link
StepAggregate ==
    IF pc = "txt"
    THEN FoldAggregate(arena, StepModId, extracted[idx + 1], DefName,
                       ~ModDataOf(arena, StepModId).enabled, check_script_conflicts)
    ELSE FoldAggregate(arena, StepModId, extracted[idx + 1], LocName,
                       FALSE, check_loc_conflicts)
\* the node at the literal path of the file when the path link starts
StepExisting ==
    get_by_dir(StepAggregate.a, 0, Node(StepAggregate.a, ArenaLen(arena)).rel_dir, None)

\* C10 as claimed: when a node exists at the literal path of the file being
\* folded, the file's children are merged into it by
\* update_with_conflict_check and the paths that merge reports join the
\* conflict set.
C10_PathMergeChecksConflicts ==
    [][ (IsFoldStep /\ IsSome(StepExisting) /\ pc' # "aborted") =>
          LET merged == update_with_conflict_check(
                            set_source(StepAggregate.a, Unwrap(StepExisting), StepModId),
                            Unwrap(StepExisting), ArenaLen(arena))
          IN /\ arena' = merged.a
             /\ conflicts' = conflicts \cup StepAggregate.conflicts \cup merged.conflicts
      ]_vars

\* C10 as amended: when a node exists at the literal path of the file being
\* folded, it stays the node at that path, the mod becomes one of its
\* sources, and every child of the file root is attached to it by the
\* shallow update: it is the child at its key, its parent is the existing
\* node and, the existing node being a File and the child a File or finer,
\* the existing node is one of its sources; the step adds no conflict path
\* beyond those of the aggregate merge.
C10_PathMergeIsShallow ==
    [][ (IsFoldStep /\ IsSome(StepExisting) /\ pc' # "aborted") =>
          LET existing == Unwrap(StepExisting)
              file_root == ArenaLen(arena)
          IN /\ get_by_dir(arena', 0, Node(arena', file_root).rel_dir, None) = Some(existing)
             /\ existing # file_root
             /\ StepModId \in Range(SourcesOf(arena', existing))
             /\ \A e \in Range(Node(arena', file_root).children) :
                  /\ get(arena', existing, e.key) = Some(e.id)
                  /\ Node(arena', e.id).parent = Some(existing)
                  /\ (Node(arena', existing).node_type = "File"
                      /\ TypeLe(Node(arena', e.id).node_type, "File"))
                        => existing \in Range(SourcesOf(arena', e.id))
             /\ conflicts' = conflicts \cup StepAggregate.conflicts
      ]_vars

\* a file with a top-level key has been folded onto an existing node
C10_Witness ==
    /\ LastIsFold /\ pc # "aborted"
    /\ folds[LastFold].top # <<>>
    /\ get_by_dir(arena, 0, FoldRelDir(LastFold), None) # Some(folds[LastFold].root)

----------------------------------------------------------------------------
(* update_with_conflict_check called on arenas built through the API       *)

\* Bound: the number of calls made on one arena
MaxCalls == 2

KeyNamespace == <<"n","a","m","e","s","p","a","c","e">>
\* node ids of the arenas below: the two mods used as sources, the node
\* merged into, two file roots merged from
ModS == ArenaLen(ExtractorArena)
ModT == ModS + 1
IdSelf == ModT + 1
IdOther == IdSelf + 1
IdThird == IdOther + 1

RECURSIVE SetSources(_, _, _)
\* Arena::set_source for each element of srcs in turn
SetSources(a, id, srcs) ==
    IF srcs = <<>> THEN a
    ELSE SetSources(set_source(a, id, Head(srcs)), id, Tail(srcs))

\* a Value node named key, attached under parent without source marking,
\* with the given provenance
AddChild(a, parent, key, value, srcs) ==
    LET id == ArenaLen(a)
        a1 == new_node(a, key, Join(<<DirCommon, FooTxt>>, key), Some(value))
    IN SetSources(set_child(a1, parent, key, id, FALSE), id, srcs)

\* the node merged into: a <def> container, a file root or a mod
AddSelf(a, kind) ==
    IF kind = "Virtual" THEN new_node(a, DefName, <<DirCommon, DefName>>, None)
    ELSE IF kind = "File" THEN new_node(a, FooTxt, <<DirCommon, FooTxt>>, None)
    ELSE new_mod(a, Ch("S"), TRUE, 2, ModDirA)

SelfKinds == {"Virtual", "File", "Mod"}
ExistingSources == { <<>>, <<ModS>>, <<ModS, ModT>> }
IncomingSources == { <<>>, <<ModS>>, <<ModT>>, <<ModT, ModS>> }
ThirdSources == { <<ModT>> }
Values == { Ch("1"), Ch("2") }

\* An arena with self holding x (and namespace, and y), other holding x (and
\* namespace, and the same node again at y), third holding x
MergeArena(kind, es, os, ov, ts, with_ns, with_alias) ==
    LET a0 == ExtractorArena
        a1 == new_mod(new_mod(a0, Ch("A"), TRUE, 0, ModDirA), Ch("B"), TRUE, 1, ModDirB)
        a2 == AddSelf(a1, kind)
        a3 == new_node(a2, FooTxt, <<DirCommon, FooTxt>>, None)
        a4 == new_node(a3, FooTxt, <<DirCommon, FooTxt>>, None)
        a5 == AddChild(a4, IdSelf, KeyX, Ch("1"), es)
        incoming == ArenaLen(a5)
        a6 == AddChild(a5, IdOther, KeyX, ov, os)
        a7 == AddChild(a6, IdThird, KeyX, Ch("1"), ts)
        a8 == IF with_ns
              THEN AddChild(AddChild(a7, IdSelf, KeyNamespace, Ch("1"), <<ModS>>),
                            IdOther, KeyNamespace, Ch("1"), <<ModT>>)
              ELSE a7
        a9 == IF with_alias
              THEN set_child(AddChild(a8, IdSelf, KeyY, Ch("1"), <<ModS>>),
                             IdOther, KeyY, incoming, FALSE)
              ELSE a8
    IN a9

InitMerge ==
    /\ \E kind \in SelfKinds, es \in ExistingSources, os \in IncomingSources,
          ov \in Values, ts \in ThirdSources, with_ns, with_alias \in BOOLEAN :
         arena = MergeArena(kind, es, os, ov, ts, with_ns, with_alias)
    /\ conflicts = {}
    /\ check_script_conflicts = CHECK_SCRIPT_CONFLICTS
    /\ check_loc_conflicts = CHECK_LOC_CONFLICTS
    /\ modList = <<>>
    /\ disk = <<>>
    /\ pc = "merge"
    /\ mod_files = EmptyFileMap
    /\ extracted = <<>>
    /\ idx = 0
    /\ folds = <<>>
    /\ last = [op |-> "new", args |-> <<>>, ret |-> {}]
    /\ lock = FreeLock
    /\ threads = NoThreads

\* self.update_with_conflict_check(other); a failed assertion ends the run.
\* folds is the log of the calls made.
Merge(self, other) ==
    /\ pc = "merge" /\ idx < MaxCalls
    /\ LET r == update_with_conflict_check(arena, self, other)
       IN /\ arena' = r.a
          /\ pc' = Outcome(r.a, "merge")
          /\ last' = [op |-> "update_with_conflict_check", args |-> <<self, other>>,
                      ret |-> IF r.a.halted THEN {} ELSE r.conflicts]
          /\ folds' = Append(folds, last')
    /\ idx' = idx + 1
    /\ UNCHANGED <<lock, threads, conflicts, check_script_conflicts, check_loc_conflicts, modList,
                   disk, mod_files, extracted>>

\* arena.set_source(id, source_id)
SetSource(id, source_id) ==
    /\ pc = "merge" /\ idx < MaxCalls
    /\ arena' = set_source(arena, id, source_id)
    /\ last' = [op |-> "set_source", args |-> <<id, source_id>>, ret |-> {}]
    /\ folds' = Append(folds, last')
    /\ idx' = idx + 1
    /\ UNCHANGED <<lock, threads, conflicts, check_script_conflicts, check_loc_conflicts, modList,
                   disk, pc, mod_files, extracted>>

NextMerge ==
    \/ \E self \in {IdSelf, IdThird}, other \in {IdOther, IdThird} : Merge(self, other)
    \/ \E id \in Ids(arena) \ (0..IdThird), source_id \in {ModT} :
         SetSource(id, source_id)

SpecMerge == InitMerge /\ [][NextMerge]_vars

----------------------------------------------------------------------------
(* C4 .. C8 *)

MergeOp == "update_with_conflict_check"
\* the step is a call of update_with_conflict_check; it returned
MergeStep == pc = "merge" /\ idx' = idx + 1 /\ last'.op = MergeOp
Returned == pc' = "merge"
StepSelf == last'.args[1]
StepOther == last'.args[2]
\* the children of other when the call starts
OtherEntries == Range(Node(arena, StepOther).children)
PathOf(e) == Join(Node(arena, StepSelf).rel_dir, e.key)
HasExisting(e) == IsSome(get(arena, StepSelf, e.key))
ExistingOf(e) == Unwrap(get(arena, StepSelf, e.key))
\* the four conditions of a conflict, on the arena the call starts from
ConflictAt(e) ==
    /\ HasExisting(e)
    /\ ExistingOf(e) # e.id
    /\ Node(arena, ExistingOf(e)).sources # Node(arena, e.id).sources
    /\ Range(SourcesOf(arena, ExistingOf(e))) # Range(SourcesOf(arena, e.id))
    /\ e.key # KeyNamespace
\* the attachment marks self as a source of the incoming child
MarksSource(e) ==
    /\ Node(arena, StepSelf).node_type \in {"Mod", "File"}
    /\ Node(arena, e.id).node_type \in {"Value", "Identifier", "File"}
\* the provenance objects the call touches at the key of e
ObjectsAt(e) ==
    {Node(arena, e.id).sources}
        \cup (IF HasExisting(e) THEN {Node(arena, ExistingOf(e)).sources} ELSE {})
\* no provenance object is met at two keys of other
NoAlias ==
    \A e1, e2 \in OtherEntries : e1.key # e2.key => ObjectsAt(e1) \cap ObjectsAt(e2) = {}

LastIsMerge == last.op = MergeOp /\ pc = "merge"
\* the last call merged a file root holding x and namespace, and nothing at y
LastMergedNamespace ==
    /\ LastIsMerge
    /\ last.args[1] # last.args[2]
    /\ MapHas(Node(arena, last.args[2]).children, KeyNamespace)
    /\ ~MapHas(Node(arena, last.args[2]).children, KeyY)

C5_IncomingWins ==
    [][ (MergeStep /\ Returned) =>
          /\ \A e \in OtherEntries : get(arena', StepSelf, e.key) = Some(e.id)
          /\ ArenaLen(arena') = ArenaLen(arena)
          /\ \A c \in Range(Node(arena, StepSelf).children) :
                c.key \notin MapKeys(Node(arena, StepOther).children) =>
                    get(arena', StepSelf, c.key) = Some(c.id)
          /\ MapKeys(Node(arena', StepSelf).children) =
                MapKeys(Node(arena, StepSelf).children)
                    \cup MapKeys(Node(arena, StepOther).children)
      ]_vars

\* a call has returned a conflict, added a key self did not hold (third held
\* no namespace) or kept a key other does not hold
C5_Witness ==
    /\ LastIsMerge
    /\ last.ret # {}
    /\ last.args[1] # last.args[2]
    /\ MapKeys(Node(arena, last.args[1]).children)
         # MapKeys(Node(arena, last.args[2]).children)

\* the existing and the incoming child of a recorded conflict share one
\* provenance object afterwards
SharedAfter(e) == Node(arena', ExistingOf(e)).sources = Node(arena', e.id).sources
\* distinct nodes that reference one provenance object
Sharing == { p \in Ids(arena) \X Ids(arena) :
                p[1] # p[2] /\ Node(arena, p[1]).sources = Node(arena, p[2]).sources }

C7_SecondCallIdle ==
    [][ (MergeStep /\ Returned /\ last.op = MergeOp /\ last.args = last'.args) =>
          /\ last'.ret = {}
          /\ Node(arena', StepSelf).children = Node(arena, StepSelf).children
          /\ arena'.sets = arena.sets
          /\ \A id \in Ids(arena) : Node(arena', id).sources = Node(arena, id).sources
      ]_vars

\* the same call was made twice, the first returning a conflict
C7_Witness ==
    /\ Len(folds) = 2 /\ pc = "merge"
    /\ folds[1].op = MergeOp /\ folds[2].op = MergeOp
    /\ folds[1].args = folds[2].args
    /\ folds[1].ret # {}

\* C8: a call that meets a conflict, the case of an empty set included,
\* returns, with the path of every conflict recorded and every key of other
\* attached.
C8_ConflictNeverAborts ==
    [][ (MergeStep /\ NoAlias /\ \E e \in OtherEntries : ConflictAt(e)) =>
          /\ Returned
          /\ \A e \in OtherEntries : ConflictAt(e) => PathOf(e) \in last'.ret
          /\ \A e \in OtherEntries : get(arena', StepSelf, e.key) = Some(e.id)
      ]_vars

----------------------------------------------------------------------------
(* The arena and tree operations called in any order                       *)

\* Bounds: the number of calls made on one arena, the nodes it may hold
MaxOps == 2
MaxNodes == 6

\* keys and paths the calls are made with
ApiKeys == {KeyX, FooTxt}
ApiDirs == { <<DirCommon>>, <<DirCommon, FooTxt>>, <<DirCommon, DefName>> }
\* arenas handed to extend: those of a script file and of a localization
\* file, and the empty arena
ApiArenas ==
    { extract_definitions_worker(f, -1) :
        f \in { [path |-> ModDirA \o <<DirCommon, FooTxt>>, ts |-> ScriptX, lines |-> <<>>],
                [path |-> ModDirA \o <<LocalizationDir, DirEnglish, LocYml>>,
                 ts |-> NoScript, lines |-> LocK] } }
        \cup {NewArena}

Init ==
    /\ arena = ExtractorArena
    /\ conflicts = {}
    /\ check_script_conflicts = CHECK_SCRIPT_CONFLICTS
    /\ check_loc_conflicts = CHECK_LOC_CONFLICTS
    /\ modList = <<>>
    /\ disk = <<>>
    /\ pc = "api"
    /\ mod_files = EmptyFileMap
    /\ extracted = <<>>
    /\ idx = 0
    /\ folds = <<>>
    /\ last = [op |-> "new", args |-> <<>>, ret |-> {}]
    /\ lock = FreeLock
    /\ threads = NoThreads

\* one call: the arena it leaves; a failed assertion ends the run
ApiCall(op, args, a, ret) ==
    /\ pc = "api" /\ idx < MaxOps
    /\ ArenaLen(a) <= MaxNodes
    /\ arena' = a
    /\ pc' = Outcome(a, "api")
    /\ last' = [op |-> op, args |-> args, ret |-> IF a.halted THEN {} ELSE ret]
    /\ idx' = idx + 1
    /\ UNCHANGED <<lock, threads, conflicts, check_script_conflicts, check_loc_conflicts, modList,
                   disk, mod_files, extracted, folds>>

SetChild(parent, key, value, flag) ==
    ApiCall("set_child", <<parent, key, value, flag>>,
            set_child(arena, parent, key, value, flag), {})

SetDefault(self, key) ==
    ApiCall("setdefault", <<self, key>>, setdefault(arena, self, key, None).a, {})

SetDefaultByDir(self, dir) ==
    ApiCall("setdefault_by_dir", <<self, dir>>,
            setdefault_by_dir(arena, self, dir, dir[Len(dir)]).a, {})

SetByDir(self, dir, value) ==
    ApiCall("set_by_dir", <<self, dir, value>>, set_by_dir(arena, self, dir, value), {})

Update(self, other) ==
    ApiCall("update", <<self, other>>, update(arena, self, other), {})

UpdateWithConflictCheck(self, other) ==
    LET r == update_with_conflict_check(arena, self, other)
    IN ApiCall(MergeOp, <<self, other>>, r.a, r.conflicts)

Extend(other) ==
    ApiCall("extend", <<other>>, extend(arena, other), {})

NewMod(name) ==
    ApiCall("new_mod", <<name>>, new_mod(arena, name, TRUE, 0, ModDirA), {})

\* ParadoxModDefinitionTree::new_node
NewNode(name, rel_dir, value) ==
    ApiCall("new_node", <<name, rel_dir, value>>, new_node(arena, name, rel_dir, value), {})

\* node.set_source(source)
SetSourceNode(self, source) ==
    ApiCall("set_source", <<self, source>>, node_set_source(arena, self, source), {})

\* node.name = name
SetName(self, name) ==
    ApiCall("set_name", <<self, name>>, set_name(arena, self, name), {})

\* paths and defaults get_by_dir is called with
GetDirs == { <<>>, <<DirCommon>>, <<Dot, DirCommon, FooTxt>>, <<DirCommon, Dot, DefName>> }

\* node.get_by_dir(dir, default): the arena is only read
GetByDir(self, dir, default) ==
    ApiCall("get_by_dir", <<self, dir, default>>, arena,
            { get_by_dir(arena, self, dir, default) })

Next ==
    \/ \E parent, value \in Ids(arena), key \in ApiKeys, flag \in BOOLEAN :
         SetChild(parent, key, value, flag)
    \/ \E self \in Ids(arena), key \in ApiKeys : SetDefault(self, key)
    \/ \E self \in Ids(arena), dir \in ApiDirs : SetDefaultByDir(self, dir)
    \/ \E self, value \in Ids(arena), dir \in ApiDirs : SetByDir(self, dir, value)
    \/ \E self, other \in Ids(arena) : Update(self, other)
    \/ \E self, other \in Ids(arena) : UpdateWithConflictCheck(self, other)
    \/ \E other \in ApiArenas : Extend(other)
    \/ NewMod(Ch("A"))
    \/ \E name \in ApiKeys, value \in {None, Some(Ch("1"))} :
         NewNode(name, <<DirCommon, name>>, value)
    \/ \E self, source \in Ids(arena) : SetSourceNode(self, source)
    \/ \E self \in Ids(arena) : SetName(self, KeyX)
    \/ \E self \in Ids(arena), dir \in GetDirs, default \in {None, Some(0)} :
         GetByDir(self, dir, default)

Spec == Init /\ [][Next]_vars

----------------------------------------------------------------------------
(* C1 *)

\* parent >= child in Value < Identifier < File < Directory < Mod < Virtual,
\* or one of the two is Virtual
RuleHolds(parent_type, child_type) ==
    \/ "Virtual" \in {parent_type, child_type}
    \/ NodeTypeRank(parent_type) >= NodeTypeRank(child_type)

\* C1: in every state the calls reach, every children entry satisfies the
\* attachment rule, and set_child called on a pair that breaks the rule
\* fails without changing a node.
C1_AttachmentRule ==
    [][ /\ \A id \in Ids(arena') :
             \A e \in Range(Node(arena', id).children) :
                RuleHolds(Node(arena', id).node_type, Node(arena', e.id).node_type)
        /\ (pc = "api" /\ idx' = idx + 1 /\ last'.op = "set_child"
              /\ ~RuleHolds(Node(arena, last'.args[1]).node_type,
                            Node(arena, last'.args[3]).node_type)) =>
               /\ pc' = "aborted"
               /\ arena'.nodes = arena.nodes /\ arena'.sets = arena.sets
      ]_vars

\* a file root holds a child of a finer type and a call has been refused
C1_Witness ==
    /\ pc = "aborted"
    /\ \E id \in Ids(arena) :
         /\ Node(arena, id).node_type = "File"
         /\ \E e \in Range(Node(arena, id).children) :
              Node(arena, e.id).node_type \in {"Value", "Identifier"}

----------------------------------------------------------------------------
(* C11 *)

\* the step is a call of the named operation of the arena
ApiStep(op) == pc = "api" /\ idx' = idx + 1 /\ last'.op = op

\* C11: after Y.extend(X), with n the length of Y before: the length is
\* n + |X|; node n + i has the type, value, name, rel_dir and start_point of
\* X[i], its parent, its children ids and its sources shifted by n, keys and
\* orders kept; the nodes of Y below n, their provenance sets and X are as
\* they were; extending with the empty arena changes nothing.
C11_ExtendRemaps ==
    [][ ApiStep("extend") =>
          LET X == last'.args[1]
              n == ArenaLen(arena)
          IN /\ ArenaLen(arena') = n + ArenaLen(X)
             /\ \A i \in Ids(X) :
                  LET x == Node(X, i)
                      y == Node(arena', n + i)
                  IN /\ y.id = n + i
                     /\ y.node_type = x.node_type /\ y.value = x.value
                     /\ y.name = x.name /\ y.rel_dir = x.rel_dir
                     /\ y.start_point = x.start_point
                     /\ y.parent = IF IsSome(x.parent) THEN Some(Unwrap(x.parent) + n)
                                   ELSE None
                     /\ Len(y.children) = Len(x.children)
                     /\ \A k \in 1..Len(x.children) :
                          /\ y.children[k].key = x.children[k].key
                          /\ y.children[k].id = x.children[k].id + n
                     /\ Len(SourcesOf(arena', n + i)) = Len(SourcesOf(X, i))
                     /\ \A k \in 1..Len(SourcesOf(X, i)) :
                          SourcesOf(arena', n + i)[k] = SourcesOf(X, i)[k] + n
             /\ \A j \in Ids(arena) :
                  /\ Node(arena', j) = Node(arena, j)
                  /\ SourcesOf(arena', j) = SourcesOf(arena, j)
             /\ ArenaLen(X) = 0 => arena' = arena
      ]_vars

\* an arena whose first node has a child with a parent and a source has been
\* appended to an arena holding more than the root
C11_Witness ==
    /\ last.op = "extend"
    /\ ArenaLen(last.args[1]) > 1
    /\ ArenaLen(arena) > ArenaLen(last.args[1]) + 1
    /\ \E i \in Ids(last.args[1]) :
         /\ IsSome(Node(last.args[1], i).parent)
         /\ SourcesOf(last.args[1], i) # <<>>
    /\ Node(last.args[1], 0).children # <<>>

----------------------------------------------------------------------------
(* C12 *)

\* C12: the node vector only grows, the node at index i has id i, a node
\* keeps its type and value, and the root stays the node of id 0.
C12_IdsAreStable ==
    [][ /\ ArenaLen(arena') >= ArenaLen(arena)
        /\ \A i \in Ids(arena') : Node(arena', i).id = i
        /\ \A i \in Ids(arena) :
             /\ Node(arena', i).node_type = Node(arena, i).node_type
             /\ Node(arena', i).value = Node(arena, i).value
        /\ Node(arena', 0).node_type = "Virtual"
        /\ Node(arena', 0).rel_dir = <<Dot>>
      ]_vars

\* nodes were created by new_node and by extend on an arena holding others
C12_Witness ==
    /\ idx = MaxOps
    /\ last.op \in {"new_node", "extend"}
    /\ ArenaLen(arena) > 3

----------------------------------------------------------------------------
(* C13 *)

\* C13: every id in a provenance set denotes a Mod or a File node, and a
\* set_child step adds the parent to the child's set only when marking is
\* requested, the parent is a Mod or a File and the child a File or finer.
C13_SourcesAreModOrFile ==
    [][ /\ \A i \in Ids(arena') :
             \A src \in Range(SourcesOf(arena', i)) :
                Node(arena', src).node_type \in {"Mod", "File"}
        /\ ApiStep("set_child") =>
             \A i \in Ids(arena) :
                SourcesOf(arena', i) # SourcesOf(arena, i) =>
                   /\ last'.args[4]
                   /\ Node(arena, last'.args[1]).node_type \in {"Mod", "File"}
                   /\ Node(arena, last'.args[3]).node_type \in {"Value", "Identifier", "File"}
                   /\ SourcesOf(arena', i) = Append(SourcesOf(arena, i), last'.args[1])
      ]_vars

----------------------------------------------------------------------------
(* C14 *)

\* the ids of the nodes named name, in ascending order
RECURSIVE IdsNamed(_, _, _)
IdsNamed(a, name, i) ==
    IF i >= ArenaLen(a) THEN <<>>
    ELSE (IF Node(a, i).name = name THEN <<i>> ELSE <<>>) \o IdsNamed(a, name, i + 1)

\* C14: get_by_name(s) lists exactly the nodes named s, Mod nodes included.
C14_NameLookupExact ==
    \A i \in Ids(arena) :
        LET s == Node(arena, i).name
        IN /\ IsSome(get_by_name(arena, s))
           /\ Range(Unwrap(get_by_name(arena, s))) = Range(IdsNamed(arena, s, 0))

----------------------------------------------------------------------------
(* C15 *)

\* the mods with a script file in directory dir that defines key
DefiningMods(dir, key) ==
    { folds[l].mod_id : l \in { m \in TxtFolds :
          FoldDir(m) = dir /\ key \in FoldKeys(m) } }

\* those of them that are enabled, whose files reach the <def> container
EnabledDefiningMods(dir, key) ==
    { folds[l].mod_id : l \in { m \in TxtFolds :
          FoldEnabled(m) /\ FoldDir(m) = dir /\ key \in FoldKeys(m) } }

\* C15: after a run, get_mod_sources of the <def> child at a key is exactly
\* the set of mods with a file in that directory that defines the key: every
\* reported mod owns a file there that defines the key, and no enabled
\* defining mod is missing.
C15_ModSourcesExact ==
    pc = "done" =>
        \A i \in TxtFolds :
            FoldEnabled(i) =>
                \A key \in FoldKeys(i) :
                    LET def == Unwrap(Aggregate(FoldDir(i), DefName))
                        child == Unwrap(get(arena, def, key))
                        reported == Range(get_mod_sources(arena, child))
                    IN /\ reported \subseteq DefiningMods(FoldDir(i), key)
                       /\ EnabledDefiningMods(FoldDir(i), key) \subseteq reported

----------------------------------------------------------------------------
(* C16 *)

\* path p is the path of key under the <def> container of dir, or lies below it
AtOrBelowKey(p, dir, key) ==
    /\ IsSome(Aggregate(dir, DefName))
    /\ LET q == AggregateKeyPath(dir, DefName, key)
       IN Len(q) <= Len(p) /\ SubSeq(p, 1, Len(q)) = q

\* C16: every path in the run-wide conflict set is a key that at least two
\* distinct mods defined in that directory; a key that only files of one mod
\* define is not recorded as a conflict.
C16_ConflictNeedsTwoMods ==
    \A p \in conflicts :
        \E i \in TxtFolds :
            \E key \in FoldKeys(i) :
                /\ AtOrBelowKey(p, FoldDir(i), key)
                /\ Cardinality(DefiningMods(FoldDir(i), key)) >= 2

----------------------------------------------------------------------------
(* C17 *)

\* the segments of dir that are not "."
NoDots(dir) == SelectSeq(dir, LAMBDA part : part # Dot)

\* chain[0] is self and chain[k] is the child of chain[k-1] at segment k
Resolves(a, self, segs, chain) ==
    /\ chain[0] = self
    /\ \A k \in 1..Len(segs) :
         MapGet(Node(a, chain[k - 1]).children, segs[k]) = Some(chain[k])

\* C17: get_by_dir(path, default) follows the segments of path from the node
\* through the children mappings, passing over "." segments; it returns the
\* node reached when every segment has a child, the node itself for the empty
\* path, and default when some segment has none; it changes nothing.
C17_GetByDirWalks ==
    [][ ApiStep("get_by_dir") =>
          LET self == last'.args[1]
              dir == last'.args[2]
              default == last'.args[3]
              segs == NoDots(dir)
              chains == { chain \in [0..Len(segs) -> Ids(arena)] :
                            Resolves(arena, self, segs, chain) }
          IN /\ arena' = arena
             /\ chains # {} =>
                  last'.ret = { Some((CHOOSE chain \in chains : TRUE)[Len(segs)]) }
             /\ chains = {} => last'.ret = { default }
             /\ dir = <<>> => last'.ret = { Some(self) }
      ]_vars

\* a path with a "." segment was resolved two levels down
C17_Witness ==
    /\ last.op = "get_by_dir"
    /\ Dot \in Range(last.args[2])
    /\ Len(NoDots(last.args[2])) = 2
    /\ \E id \in Ids(arena) :
         /\ last.ret = { Some(id) }
         /\ id # last.args[1]
         /\ IsSome(Node(arena, id).parent)
         /\ Unwrap(Node(arena, id).parent) # last.args[1]

----------------------------------------------------------------------------
(* C18 *)

\* C18: after set_by_dir(path, value) with a non-empty path that did not
\* fail, get_by_dir(path) returns value, whether or not a child existed at
\* the terminal key before, and every proper prefix of path that led nowhere
\* before leads to a new node named after its last segment.
C18_SetByDirSets ==
    [][ (ApiStep("set_by_dir") /\ pc' = "api") =>
          LET self == last'.args[1]
              path == last'.args[2]
              value == last'.args[3]
          IN /\ get_by_dir(arena', self, path, None) = Some(value)
             /\ \A k \in 1..(Len(path) - 1) :
                  get_by_dir(arena, self, SubSeq(path, 1, k), None) = None =>
                      LET at == get_by_dir(arena', self, SubSeq(path, 1, k), None)
                      IN /\ IsSome(at)
                         /\ Unwrap(at) >= ArenaLen(arena)
                         /\ Node(arena', Unwrap(at)).name = path[k]
      ]_vars

----------------------------------------------------------------------------
(* Script extraction under a depth limit                                   *)

\* Bounds: the assignments at the top of a script, the largest depth limit
MaxAssign == 2
MaxDepth == 5

\* k = 1
LeafOf(k) == TsAssign(k, <<0, 0>>, TsSimple(Ch("1"), <<0, 4>>))
\* k = { inner }
BlockOf(k, inner) ==
    TsAssign(k, <<0, 0>>,
             TsMap(<< Ts("{", <<>>, <<0, 4>>, <<>>), inner, Ts("}", <<>>, <<0, 12>>, <<>>) >>))

\* the assignments a script is made of: no block is empty
DeepAssigns ==
    { LeafOf(KeyX), LeafOf(KeyY),
      BlockOf(KeyX, LeafOf(KeyA)), BlockOf(KeyY, LeafOf(KeyA)),
      BlockOf(KeyX, BlockOf(KeyA, LeafOf(KeyK))),
      BlockOf(KeyY, BlockOf(KeyA, LeafOf(KeyK))) }

DeepScripts ==
    { TsSourceFile(body) : body \in UNION { [1..n -> DeepAssigns] : n \in 0..MaxAssign } }

InitExtract ==
    /\ arena = ExtractorArena
    /\ conflicts = {}
    /\ check_script_conflicts = CHECK_SCRIPT_CONFLICTS
    /\ check_loc_conflicts = CHECK_LOC_CONFLICTS
    /\ modList = <<>>
    /\ \E ts \in DeepScripts :
         disk = << << [path |-> ModDirA \o <<DirCommon, FooTxt>>, ts |-> ts, lines |-> <<>>] >> >>
    /\ pc = "new"
    /\ mod_files = EmptyFileMap
    /\ extracted = <<>>
    /\ idx = 0
    /\ folds = <<>>
    /\ \E max_depth \in -1..MaxDepth :
         last = [op |-> "new", args |-> <<max_depth>>, ret |-> {}]
    /\ lock = FreeLock
    /\ threads = NoThreads

\* extract_definitions_worker on the file, with the depth limit given
ExtractWorker ==
    /\ pc = "new"
    /\ LET f == disk[1][1]
           max_depth == last.args[1]
           a == extract_definitions_worker(f, max_depth)
       IN /\ extracted' = << a >>
          /\ pc' = Outcome(a, "extracted")
          /\ last' = [op |-> "extract_definitions_worker", args |-> <<f, max_depth>>,
                      ret |-> {}]
    /\ UNCHANGED <<lock, threads, arena, conflicts, check_script_conflicts, check_loc_conflicts,
                   modList, disk, mod_files, idx, folds>>

NextExtract == ExtractWorker

SpecExtract == InitExtract /\ [][NextExtract]_vars

----------------------------------------------------------------------------
(* C19 *)

\* the number of assignments of a syntax tree that lie at a depth within the
\* limit (all of them when limit <= 0), the tree's root being at depth
RECURSIVE AssignmentsWithin(_, _, _)
RECURSIVE AssignmentsWithinAll(_, _, _)
AssignmentsWithinAll(children, depth, limit) ==
    IF children = <<>> THEN 0
    ELSE AssignmentsWithin(Head(children), depth, limit)
         + AssignmentsWithinAll(Tail(children), depth, limit)

AssignmentsWithin(ts, depth, limit) ==
    IF limit > 0 /\ depth > limit THEN 0
    ELSE IF ts.kind \in {"source_file", "map"}
         THEN AssignmentsWithinAll(ts.children, depth + 1, limit)
    ELSE IF ts.kind = "assignment"
         THEN 1 + AssignmentsWithin(ValueField(ts), depth + 1, limit)
    ELSE 0

\* a node without a value and without children, other than the file root
EmptyContainers(a) ==
    { id \in Ids(a) \ {0} : Node(a, id).value = None /\ Node(a, id).children = <<>> }

\* C19: extraction raises no error; under a positive depth limit it makes no
\* more nodes than there are assignments within the limit and leaves no empty
\* container for a block cut off by the limit; a limit <= 0 cuts nothing off.
C19_DepthLimitCutsCleanly ==
    (last.op = "extract_definitions_worker") =>
        LET f == last.args[1]
            max_depth == last.args[2]
            a == extracted[1]
        IN /\ pc = "extracted"
           /\ max_depth > 0 =>
                /\ ArenaLen(a) - 1 <= AssignmentsWithin(f.ts, 0, max_depth)
                /\ EmptyContainers(a) = {}
           /\ max_depth <= 0 => ArenaLen(a) - 1 = AssignmentsWithin(f.ts, 0, 0)

----------------------------------------------------------------------------
(* Discovery over one mod directory                                        *)

\* Bound: the number of regular files the walk of the directory yields
MaxWalk == 2

DirRussian == <<"r","u","s","s","i","a","n">>
DirGit == <<".","g","i","t">>

\* paths below the mod directory: top-level files, files one and two
\* directories down
WalkNames == { FooTxt, LocYml, PicDds }
WalkTops == { DirCommon, LocalizationDir, DirGit }
WalkRelPaths ==
    { <<name>> : name \in WalkNames }
        \cup { <<top, name>> : top \in WalkTops, name \in WalkNames }
        \cup { <<top, mid, name>> :
                 top \in WalkTops, mid \in {DirEnglish, DirRussian}, name \in WalkNames }

\* what the walk can yield: distinct regular files in any order
WalkFiles ==
    { w \in UNION { [1..n -> WalkRelPaths] : n \in 0..MaxWalk } :
        \A i, j \in 1..Len(w) : i # j => w[i] # w[j] }

InitCollect ==
    /\ arena = new_mod(ExtractorArena, Ch("A"), TRUE, 0, ModDirA)
    /\ conflicts = {}
    /\ check_script_conflicts = CHECK_SCRIPT_CONFLICTS
    /\ check_loc_conflicts = CHECK_LOC_CONFLICTS
    /\ modList = << [name |-> Ch("A"), enabled |-> TRUE, load_order |-> 0, path |-> ModDirA] >>
    /\ \E w \in WalkFiles :
         disk = << [i \in 1..Len(w) |->
                      [path |-> ModDirA \o w[i], ts |-> NoScript, lines |-> <<>>]] >>
    /\ pc = "enrolled"
    /\ mod_files = EmptyFileMap
    /\ extracted = <<>>
    /\ idx = 0
    /\ folds = <<>>
    /\ last = [op |-> "new", args |-> <<>>, ret |-> {}]
    /\ lock = FreeLock
    /\ threads = NoThreads

\* _collect_mod_files(mod_data) of the one mod
CollectModFiles ==
    /\ pc = "enrolled"
    /\ mod_files' = _collect_mod_files(arena.mod_data[1], disk[1])
    /\ pc' = "collected"
    /\ last' = [op |-> "_collect_mod_files", args |-> <<arena.mod_data[1].node_id>>, ret |-> {}]
    /\ UNCHANGED <<lock, threads, arena, conflicts, check_script_conflicts, check_loc_conflicts,
                   modList, disk, extracted, idx, folds>>

NextCollect == CollectModFiles

SpecCollect == InitCollect /\ [][NextCollect]_vars

----------------------------------------------------------------------------
(* C20 *)

\* how often the file is listed in a bucket
TimesIn(bucket, f) == Cardinality({ i \in 1..Len(bucket) : bucket[i].file = f })

\* a .yml file of the localization tree whose path names the language
IsTargetLoc(rel_path, path) ==
    /\ rel_path[1] = LocalizationDir
    /\ PathExtension(path) = Some(Yml)
    /\ Contains(ToAsciiLowercase(PathText(rel_path)), ToAsciiLowercase(Unwrap(language)))

\* C20: after discovery every regular file two or more levels below the mod
\* directory whose top-level directory is not ignored is listed in exactly
\* one of the three buckets, and a file under "localization" that is not a
\* localization file of the target language is listed in "other" whatever its
\* extension.
C20_EveryFileInOneBucket ==
    pc = "collected" =>
        \A i \in 1..Len(disk[1]) :
            LET f == disk[1][i]
                rel_path == RelPath(ModDirA, f.path)
            IN (Len(rel_path) >= 2 /\ rel_path[1] \notin IgnoredTopLevel) =>
                 /\ TimesIn(mod_files.txt, f) + TimesIn(mod_files.yml, f)
                        + TimesIn(mod_files.other, f) = 1
                 /\ (rel_path[1] = LocalizationDir /\ ~IsTargetLoc(rel_path, f.path))
                        => TimesIn(mod_files.other, f) = 1

----------------------------------------------------------------------------
(* Threads on the shared arena: the txt loop of extract_definitions, two   *)
(* handles calling setdefault, one handle making queries.  A step is one   *)
(* critical section of the code: the guard is taken and dropped within     *)
(* the step unless the code keeps it in a local.                            *)

\* Bound: the number of script files the loop folds
MaxThreadFiles == 1

FoldThread == "fold"
SetDefaultThreads == {"t1", "t2"}
QueryThread == "q"

\* the walks that yield script files only
TxtWalks == { w \in Walks : \A i \in 1..Len(w) : Bucket(ModDirA, ModDirA \o w[i].rel) = "txt" }

ThreadMods ==
    << [name |-> Ch("A"), enabled |-> TRUE, load_order |-> 0, path |-> ModDirA],
       [name |-> Ch("B"), enabled |-> TRUE, load_order |-> 1, path |-> ModDirB] >>

InitThreads ==
    /\ conflicts = {}
    /\ check_script_conflicts = CHECK_SCRIPT_CONFLICTS
    /\ check_loc_conflicts = CHECK_LOC_CONFLICTS
    /\ modList = ThreadMods
    /\ \E wa, wb \in TxtWalks :
         /\ Len(wa) + Len(wb) <= MaxThreadFiles
         /\ disk = << OnDisk(ModDirA, wa), OnDisk(ModDirB, wb) >>
    /\ arena = enroll_mods(ExtractorArena, modList)
    /\ mod_files = collect_mod_files_multithread(arena, disk)
    /\ extracted = _extract_definitions_multiprocess(mod_files.txt, -1)
    /\ pc = "txt"
    /\ idx = 0
    /\ folds = <<>>
    /\ last = [op |-> "collect", args |-> <<-1>>, ret |-> {}]
    /\ lock = FreeLock
    /\ threads = [fold |-> [pos |-> "len", txt_root |-> 0],
                  t1 |-> [pos |-> "call", ret |-> None, created |-> FALSE],
                  t2 |-> [pos |-> "call", ret |-> None, created |-> FALSE],
                  q |-> [pos |-> "idle", self |-> 0, ret |-> None]]

\* RwLock::read / RwLock::write can be granted
CanRead == lock.writer = None
CanWrite == lock.writer = None /\ lock.readers = <<>>

\* the guard thread t keeps in a local
Holds(t) == lock.writer = Some(t) \/ t \in Range(lock.readers)

\* the lock the next statement of thread t asks for
Requests(t) ==
    IF pc # "txt" THEN "none"
    ELSE IF t = FoldThread
         THEN CASE threads[t].pos = "len" /\ idx < Len(mod_files.txt) -> "read"
                [] threads[t].pos \in {"extend", "set_source", "aggregate", "path"} -> "write"
                [] OTHER -> "none"
    ELSE IF t \in SetDefaultThreads
         THEN CASE threads[t].pos = "call" -> "read"
                [] threads[t].pos = "create" -> "write"
                [] OTHER -> "none"
    ELSE CASE threads[t].pos \in {"idle", "guard"} -> "read"
           [] OTHER -> "none"

\* a thread is inside RwLock::write, waiting for the read guards to go
WriterWaiting ==
    \E t \in {FoldThread} \cup SetDefaultThreads : Requests(t) = "write" /\ ~CanWrite

ThreadStep(a, c, th, op, args) ==
    /\ arena' = a
    /\ conflicts' = c
    /\ threads' = th
    /\ pc' = Outcome(a, pc)
    /\ last' = [op |-> op, args |-> args, ret |-> {}]
    /\ UNCHANGED <<check_script_conflicts, check_loc_conflicts, modList, disk,
                   mod_files, extracted>>

\* let txt_root = self.arena.read().unwrap().len()
FoldReadLen ==
    /\ pc = "txt" /\ threads.fold.pos = "len" /\ idx < Len(mod_files.txt)
    /\ CanRead
    /\ ThreadStep(arena, conflicts,
                  [threads EXCEPT !.fold = [pos |-> "extend", txt_root |-> ArenaLen(arena)]],
                  "len", <<FoldThread>>)
    /\ UNCHANGED <<idx, folds, lock>>

\* self.get_mut_arena().extend(&arena)
FoldExtend ==
    /\ pc = "txt" /\ threads.fold.pos = "extend"
    /\ CanWrite
    /\ ThreadStep(extend(arena, extracted[idx + 1]), conflicts,
                  [threads EXCEPT !.fold.pos = "set_source"], "extend", <<FoldThread>>)
    /\ UNCHANGED <<idx, folds, lock>>

\* self.arena.write().unwrap().set_source(txt_root_id, *mod_id)
FoldSetSource ==
    /\ pc = "txt" /\ threads.fold.pos = "set_source"
    /\ CanWrite
    /\ ThreadStep(set_source(arena, threads.fold.txt_root, mod_files.txt[idx + 1].mod_id),
                  conflicts, [threads EXCEPT !.fold.pos = "aggregate"],
                  "set_source", <<FoldThread>>)
    /\ UNCHANGED <<idx, folds, lock>>

\* the aggregate link: rel_dir of the node at txt_root_id, setdefault_by_dir,
\* get_by_dir, the merge into <def>
FoldAggregateLink ==
    /\ pc = "txt" /\ threads.fold.pos = "aggregate"
    /\ CanWrite
    /\ LET mod_id == mod_files.txt[idx + 1].mod_id
           r == LinkAggregate(arena, threads.fold.txt_root, DefName,
                              ~ModDataOf(arena, mod_id).enabled, check_script_conflicts)
       IN ThreadStep(r.a, conflicts \cup r.conflicts,
                     [threads EXCEPT !.fold.pos = "path"], "aggregate", <<FoldThread>>)
    /\ UNCHANGED <<idx, folds, lock>>

\* the literal-path link; the iteration ends
FoldPathLink ==
    /\ pc = "txt" /\ threads.fold.pos = "path"
    /\ CanWrite
    /\ LET mod_id == mod_files.txt[idx + 1].mod_id
       IN /\ ThreadStep(LinkPath(arena, threads.fold.txt_root, mod_id), conflicts,
                        [threads EXCEPT !.fold.pos = "len"], "path", <<FoldThread>>)
          /\ folds' = Append(folds, [mod_id |-> mod_id, bucket |-> "txt",
                                     root |-> threads.fold.txt_root,
                                     len |-> ArenaLen(extracted[idx + 1]),
                                     top |-> TopLevel(extracted[idx + 1],
                                                      threads.fold.txt_root)])
    /\ idx' = idx + 1
    /\ UNCHANGED lock

\* DefinitionNode::setdefault(key, None) on the root, up to the end of its
\* read section: the existing child is returned, or the guard is dropped
SetDefaultCheck(t) ==
    /\ pc = "txt" /\ threads[t].pos = "call"
    /\ CanRead
    /\ LET existing == get(arena, 0, KeyK)
       IN ThreadStep(arena, conflicts,
                     [threads EXCEPT ![t] =
                         IF IsSome(existing)
                         THEN [pos |-> "returned", ret |-> existing, created |-> FALSE]
                         ELSE [pos |-> "create", ret |-> None, created |-> FALSE]],
                     "setdefault", <<t, 0, KeyK>>)
    /\ UNCHANGED <<idx, folds, lock>>

\* DefinitionNode::setdefault, the write section: the node is created and
\* attached
SetDefaultCreate(t) ==
    /\ pc = "txt" /\ threads[t].pos = "create"
    /\ CanWrite
    /\ LET value == ArenaLen(arena)
           a1 == new_node(arena, KeyK, Join(Node(arena, 0).rel_dir, KeyK), None)
       IN ThreadStep(set_child(a1, 0, KeyK, value, TRUE), conflicts,
                     [threads EXCEPT ![t] =
                         [pos |-> "returned", ret |-> Some(value), created |-> TRUE]],
                     "setdefault", <<t, 0, KeyK>>)
    /\ UNCHANGED <<idx, folds, lock>>

\* DefinitionNode::get_super_source_by_type: the last source, followed up to
\* the first node of the type; fuel bounds the walk
RECURSIVE SuperSourceFrom(_, _, _, _)
SuperSourceFrom(a, id, source_type, fuel) ==
    LET source == get_source(a, id)
    IN IF source = None \/ fuel = 0 THEN None
       ELSE IF Node(a, Unwrap(source)).node_type = source_type THEN source
       ELSE SuperSourceFrom(a, Unwrap(source), source_type, fuel - 1)

get_super_source_by_type(a, id, source_type) ==
    SuperSourceFrom(a, id, source_type, ArenaLen(a))

\* what py_get_full_path computes: mod_path / rel_dir / name, None when the
\* unwrap of the Mod source fails
full_path(a, id) ==
    LET source == get_super_source_by_type(a, id, "Mod")
    IN IF source = None THEN None
       ELSE Some(Join(JoinPath(ModDataOf(a, Unwrap(source)).path, Node(a, id).rel_dir),
                      Node(a, id).name))

\* node.get_by_dir(dir): one read section
QueryGetByDir(self, dir) ==
    /\ pc = "txt" /\ threads.q.pos = "idle"
    /\ CanRead
    /\ ThreadStep(arena, conflicts,
                  [threads EXCEPT !.q = [pos |-> "returned", self |-> self,
                                         ret |-> get_by_dir(arena, self, dir, None)]],
                  "get_by_dir", <<QueryThread, self, dir>>)
    /\ UNCHANGED <<idx, folds, lock>>

\* py_get_full_path, first statement: let arena = self.arena.read().unwrap()
FullPathGuard(self) ==
    /\ pc = "txt" /\ threads.q.pos = "idle"
    /\ CanRead
    /\ lock' = [lock EXCEPT !.readers = Append(@, QueryThread)]
    /\ ThreadStep(arena, conflicts,
                  [threads EXCEPT !.q = [pos |-> "guard", self |-> self, ret |-> None]],
                  "full_path", <<QueryThread, self>>)
    /\ UNCHANGED <<idx, folds>>

\* py_get_full_path, the rest: get_super_source_by_type, get_rel_dir,
\* get_name, get_sources each take the read lock again; the lock grants it
\* and the guard of the first statement is dropped at the end
FullPathInner ==
    /\ pc = "txt" /\ threads.q.pos = "guard"
    /\ CanRead
    /\ lock' = [lock EXCEPT !.readers = SelectSeq(@, LAMBDA t : t # QueryThread)]
    /\ ThreadStep(arena, conflicts,
                  [threads EXCEPT !.q.pos = "returned",
                                  !.q.ret = full_path(arena, threads.q.self)],
                  "full_path", <<QueryThread, threads.q.self>>)
    /\ UNCHANGED <<idx, folds>>

\* py_get_full_path, the rest, under a lock that queues readers behind a
\* waiting writer: the second read waits for the writer, the writer for the
\* first guard
FullPathBlocked ==
    /\ pc = "txt" /\ threads.q.pos = "guard"
    /\ WriterWaiting
    /\ ThreadStep(arena, conflicts, [threads EXCEPT !.q.pos = "blocked"],
                  "full_path", <<QueryThread, threads.q.self>>)
    /\ UNCHANGED <<idx, folds, lock>>

NextThreads ==
    \/ FoldReadLen
    \/ FoldExtend
    \/ FoldSetSource
    \/ FoldAggregateLink
    \/ FoldPathLink
    \/ \E t \in SetDefaultThreads : SetDefaultCheck(t)
    \/ \E t \in SetDefaultThreads : SetDefaultCreate(t)
    \/ QueryGetByDir(0, <<DirCommon, DefName>>)
    \/ \E self \in Ids(arena) : FullPathGuard(self)
    \/ FullPathInner
    \/ FullPathBlocked

SpecThreads == InitThreads /\ [][NextThreads]_vars

----------------------------------------------------------------------------
(* C21 *)

\* the fold of a file is between its first and its last step
FoldInProgress(th) == th.fold.pos \in {"extend", "set_source", "aggregate", "path"}

\* C21: while one file is folded no other thread changes the arena between
\* the steps of the fold (the length read, extend, the source recorded, the
\* aggregate merge, the literal-path link), and once the file's arena has
\* been appended the id computed for its root denotes that root.
C21_FoldIsOneCriticalSection ==
    [][ /\ (FoldInProgress(threads) /\ threads'.fold = threads.fold) => arena' = arena
        /\ (pc' = "txt" /\ threads'.fold.pos \in {"set_source", "aggregate", "path"}) =>
              LET appended == Node(arena', threads'.fold.txt_root)
                  file_root == Node(extracted[idx + 1], 0)
              IN /\ appended.name = file_root.name
                 /\ appended.rel_dir = file_root.rel_dir
                 /\ appended.node_type = "File"
      ]_vars

----------------------------------------------------------------------------
(* C22 *)

\* the nodes a setdefault(key) without default on self creates
CreatedAt(a, self, key) ==
    { id \in Ids(a) : /\ Node(a, id).name = key
                      /\ Node(a, id).rel_dir = Join(Node(a, self).rel_dir, key)
                      /\ Node(a, id).value = None }

\* C22: when two handles to the root have both called setdefault(key) without
\* a default, from two threads, both calls returned the same NodeId, exactly
\* one node was created, it is the child at key and it is named key with
\* rel_dir = self.rel_dir/key.
C22_SetDefaultAtomic ==
    (\A t \in SetDefaultThreads : threads[t].pos = "returned") =>
        /\ threads.t1.ret = threads.t2.ret
        /\ Cardinality({ t \in SetDefaultThreads : threads[t].created }) = 1
        /\ get(arena, 0, KeyK) = threads.t1.ret
        /\ CreatedAt(arena, 0, KeyK) = { Unwrap(threads.t1.ret) }

----------------------------------------------------------------------------
(* C23 *)

\* C23: no thread asks for the arena lock while it holds a guard of it, and
\* no query ends up waiting behind a writer that waits for the query's own
\* guard.
C23_NoReentrantLock ==
    \A t \in DOMAIN threads :
        /\ Holds(t) => Requests(t) = "none"
        /\ threads[t].pos # "blocked"

----------------------------------------------------------------------------
(* C24 *)

\* C24: after a run with script conflict checking on, a child of a <def>
\* container has more than one source exactly when the path of its key under
\* that container is in the conflict set.
C24_ConflictIffRecorded ==
    (pc = "done" /\ check_script_conflicts) =>
        \A def \in { id \in Ids(arena) : Node(arena, id).name = DefName } :
            \A e \in Range(Node(arena, def).children) :
                has_conflict(arena, e.id)
                    <=> Join(Node(arena, def).rel_dir, e.key) \in conflicts

----------------------------------------------------------------------------
(* Script extraction over key names of every kind, under either root       *)

\* Bound: the assignments at the top of a script
MaxNamed == 2

\* <k>
AngleK == <<"<", "k", ">">>

\* keys: plain, with a recognized file extension, wrapped in angle brackets
NamedKeys == { KeyX, FooTxt, AngleK }

\* k = 1, k = { a = 1 }, k = { j = { a = 1 } } over the keys
NamedAssigns ==
    { LeafOf(k) : k \in NamedKeys }
        \cup { BlockOf(k, LeafOf(KeyA)) : k \in NamedKeys }
        \cup { BlockOf(k, BlockOf(j, LeafOf(KeyA))) : k \in NamedKeys, j \in NamedKeys }

NamedScripts ==
    { TsSourceFile(body) : body \in UNION { [1..n -> NamedAssigns] : n \in 0..MaxNamed } }

\* the pyfunction extract_script_definitions: a standalone tree whose root is
\* "<root>" with rel_dir "."
extract_script_definitions(ts, max_depth) ==
    _extract_script_definitions(new_node(NewArena, RootName, <<Dot>>, None), ts, 0, max_depth, 0)

InitNamed ==
    /\ arena = ExtractorArena
    /\ conflicts = {}
    /\ check_script_conflicts = CHECK_SCRIPT_CONFLICTS
    /\ check_loc_conflicts = CHECK_LOC_CONFLICTS
    /\ modList = <<>>
    /\ \E ts \in NamedScripts :
         disk = << << [path |-> ModDirA \o <<DirCommon, FooTxt>>, ts |-> ts, lines |-> <<>>] >> >>
    /\ pc = "new"
    /\ mod_files = EmptyFileMap
    /\ extracted = <<>>
    /\ idx = 0
    /\ folds = <<>>
    /\ last = [op |-> "new", args |-> <<>>, ret |-> {}]
    /\ lock = FreeLock
    /\ threads = NoThreads

ExtractDone(op, a) ==
    /\ pc = "new"
    /\ extracted' = << a >>
    /\ pc' = Outcome(a, "extracted")
    /\ last' = [op |-> op, args |-> <<disk[1][1]>>, ret |-> {}]
    /\ UNCHANGED <<lock, threads, arena, conflicts, check_script_conflicts,
                   check_loc_conflicts, modList, disk, mod_files, idx, folds>>

\* the file is extracted by a worker, under a File root
ExtractUnderFileRoot ==
    ExtractDone("extract_definitions_worker", extract_definitions_worker(disk[1][1], -1))

\* the text is extracted standalone, under a Virtual root
ExtractStandalone ==
    ExtractDone("extract_script_definitions", extract_script_definitions(disk[1][1].ts, -1))

NextNamed == ExtractUnderFileRoot \/ ExtractStandalone

SpecNamed == InitNamed /\ [][NextNamed]_vars

----------------------------------------------------------------------------
(* C25 *)

\* C25: script extraction never breaks the attachment rule, whatever the key
\* names and the nesting and under either root: no set_child it issues is
\* refused, and every children entry it leaves satisfies the rule.
C25_ExtractionNeverViolates ==
    (last.op \in {"extract_definitions_worker", "extract_script_definitions"}) =>
        LET a == extracted[1]
        IN /\ ~a.halted
           /\ \A id \in Ids(a) :
                \A e \in Range(Node(a, id).children) :
                    RuleHolds(Node(a, id).node_type, Node(a, e.id).node_type)

----------------------------------------------------------------------------
(* C26 *)

\* C26: a set_child call on a pair that breaks the attachment rule does not
\* return normally, and it leaves the parent's children mapping, the child's
\* parent reference and the child's sources set as they were.
C26_RefusedSetChildChangesNothing ==
    [][ (ApiStep("set_child")
           /\ ~RuleHolds(Node(arena, last'.args[1]).node_type,
                         Node(arena, last'.args[3]).node_type)) =>
          LET parent == last'.args[1]
              value == last'.args[3]
          IN /\ pc' = "aborted"
             /\ ArenaLen(arena') = ArenaLen(arena)
             /\ Node(arena', parent).children = Node(arena, parent).children
             /\ Node(arena', value).parent = Node(arena, value).parent
             /\ SourcesOf(arena', value) = SourcesOf(arena, value)
      ]_vars

\* a call that asked for the source to be recorded was refused for a File
\* parent that holds a child already
C26_Witness ==
    /\ pc = "aborted"
    /\ last.op = "set_child"
    /\ last.args[4]
    /\ Node(arena, last.args[1]).node_type = "File"
    /\ ~RuleHolds(Node(arena, last.args[1]).node_type, Node(arena, last.args[3]).node_type)

----------------------------------------------------------------------------
(* SpecClassify: Arena::new_node on bounded names, rel_dirs and values     *)

MaxStem == 1

\* stems of at most MaxStem characters
ClassifyStems == UNION { [1..n -> {"x", "."}] : n \in 0..MaxStem }

\* endings: none, the eight recognized extensions in mixed case, and
\* extensions that are one character away from a recognized one
ClassifySuffixes ==
    { <<>>, <<".","t","x","t">>, <<".","T","X","T">>, <<".","Y","m","l">>,
      <<".","y","a","m","l">>, <<".","g","u","i">>, <<".","c","s","v">>,
      <<".","D","d","S">>, <<".","j","s","o","n">>, <<".","m","o","d">>,
      <<".","t","x">>, <<".","t","x","t","x">>, <<".","b">> }

ClassifyPlain == { st \o su : st \in ClassifyStems, su \in ClassifySuffixes }

\* plain, wrapped in angle brackets, opened but not closed
ClassifyNames ==
    ClassifyPlain \cup { <<"<">> \o n \o <<">">> : n \in ClassifyPlain }
                  \cup { <<"<">> \o n : n \in ClassifyPlain }

ClassifyRelDirs ==
    { <<>>, <<Dot>>, <<DirCommon>>, <<DirCommon, FooTxt>>,
      <<DirCommon, <<"F",".","M","O","D">> >>, <<FooTxt, DirCommon>>,
      <<DirCommon, FooTxt, Dot>>, <<DirCommon, <<".","t","x","t">> >> }

ClassifyValues == { None, Some(<<"1">>) }

\* the arena the node is created in: empty, or holding nodes already
ClassifyArenas ==
    { NewArena, ExtractorArena, new_node(ExtractorArena, FooTxt, <<DirCommon>>, None) }

InitClassify ==
    /\ arena \in ClassifyArenas
    /\ conflicts = {}
    /\ check_script_conflicts = CHECK_SCRIPT_CONFLICTS
    /\ check_loc_conflicts = CHECK_LOC_CONFLICTS
    /\ modList = <<>>
    /\ disk = <<>>
    /\ pc = "new"
    /\ mod_files = EmptyFileMap
    /\ extracted = <<>>
    /\ idx = 0
    /\ folds = <<>>
    /\ \E name \in ClassifyNames, rel_dir \in ClassifyRelDirs, value \in ClassifyValues :
         last = [op |-> "new", args |-> <<name, rel_dir, value>>, ret |-> {}]
    /\ lock = FreeLock
    /\ threads = NoThreads

\* BaseNode::new through Arena::new_node with the arguments drawn
NewNodeClassified ==
    /\ pc = "new"
    /\ arena' = new_node(arena, last.args[1], last.args[2], last.args[3])
    /\ pc' = "classified"
    /\ last' = [op |-> "new_node", args |-> last.args, ret |-> {ArenaLen(arena)}]
    /\ UNCHANGED <<lock, threads, conflicts, check_script_conflicts,
                   check_loc_conflicts, modList, disk, mod_files, extracted, idx, folds>>

NextClassify == NewNodeClassified

SpecClassify == InitClassify /\ [][NextClassify]_vars

----------------------------------------------------------------------------
(* C27 *)

\* s is wrapped in angle brackets
Wrapped(s) == Len(s) >= 1 /\ s[1] = "<" /\ s[Len(s)] = ">"

\* ext is one of the recognized extensions, letter case set aside
Recognized(ext) ==
    /\ IsSome(ext)
    /\ \E e \in KnownExtensions :
         /\ Len(e) = Len(Unwrap(ext))
         /\ \A i \in 1..Len(e) : LowerChar(Unwrap(ext)[i]) = e[i]

\* the type the stated precedence gives
Precedence(name, rel_dir, value) ==
    CASE IsSome(value) -> "Value"
      [] ~IsSome(value) /\ (Wrapped(name) \/ rel_dir = <<>>) -> "Virtual"
      [] ~IsSome(value) /\ ~Wrapped(name) /\ rel_dir # <<>>
           /\ Recognized(NameExtension(name)) -> "File"
      [] ~IsSome(value) /\ ~Wrapped(name) /\ rel_dir # <<>>
           /\ ~Recognized(NameExtension(name))
           /\ Recognized(PathExtension(rel_dir)) -> "Identifier"
      [] OTHER -> "Directory"

\* C27: the type of a node created by new_node is determined by its name,
\* rel_dir and value alone, by the precedence Value, Virtual (angle-bracket
\* name or empty rel_dir), File (recognized extension of the name, case
\* set aside), Identifier (recognized extension of rel_dir), Directory.
C27_ClassificationPrecedence ==
    pc = "classified" =>
        LET n == Node(arena, ArenaLen(arena) - 1)
        IN /\ n.name = last.args[1]
           /\ n.rel_dir = last.args[2]
           /\ n.value = last.args[3]
           /\ n.node_type = Precedence(n.name, n.rel_dir, n.value)
           /\ \A id \in Ids(arena) :
                \/ Node(arena, id).node_type = "Mod"
                \/ Node(arena, id).node_type =
                     Precedence(Node(arena, id).name, Node(arena, id).rel_dir,
                                Node(arena, id).value)

\* a name with a recognized extension in upper case was classified File
\* although rel_dir has a recognized extension too, in an arena that held
\* nodes already
C27_Witness ==
    /\ pc = "classified"
    /\ ArenaLen(arena) > 1
    /\ Recognized(NameExtension(last.args[1]))
    /\ \E i \in 1..Len(last.args[1]) : last.args[1][i] = "T"
    /\ Recognized(PathExtension(last.args[2]))
    /\ last.args[3] = None
    /\ Node(arena, ArenaLen(arena) - 1).node_type = "File"

----------------------------------------------------------------------------
(* C28 *)

RECURSIVE FoldTxtFrom(_, _, _, _, _)
\* the txt loop from its i-th file on
FoldTxtFrom(r, files, arenas, check_script, i) ==
    IF i > Len(files) \/ r.a.halted THEN r
    ELSE LET f == FoldTxtFile(r.a, files[i].mod_id, arenas[i], check_script)
         IN FoldTxtFrom([a |-> f.a, conflicts |-> r.conflicts \cup f.conflicts],
                        files, arenas, check_script, i + 1)

RECURSIVE FoldYmlFrom(_, _, _, _, _)
\* the yml loop from its i-th file on
FoldYmlFrom(r, files, arenas, check_loc, i) ==
    IF i > Len(files) \/ r.a.halted THEN r
    ELSE LET f == FoldYmlFile(r.a, files[i].mod_id, arenas[i], check_loc)
         IN FoldYmlFrom([a |-> f.a, conflicts |-> r.conflicts \cup f.conflicts],
                        files, arenas, check_loc, i + 1)

RECURSIVE FoldOtherFrom(_, _, _)
\* the loop over the other files from its i-th file on
FoldOtherFrom(a, files, i) ==
    IF i > Len(files) \/ a.halted THEN a
    ELSE FoldOtherFrom(FoldOtherFile(a, files[i].mod_id, files[i].file), files, i + 1)

\* enroll_mods(mod_list) and extract_definitions(max_depth) on a new
\* extractor, walks[i] being what the walk of the i-th mod yields: the arena
\* and self.conflicts afterwards
extract_definitions(mod_list, walks, max_depth, check_script, check_loc) ==
    LET a0 == enroll_mods(ExtractorArena, mod_list)
        found == collect_mod_files_multithread(a0, walks)
        txt == _extract_definitions_multiprocess(found.txt, max_depth)
        r1 == FoldTxtFrom([a |-> a0, conflicts |-> {}], found.txt, txt, check_script, 1)
        yml == _extract_definitions_multiprocess(found.yml, max_depth)
        r2 == FoldYmlFrom(r1, found.yml, yml, check_loc, 1)
    IN  IF AnyHalted(txt) THEN [a |-> [a0 EXCEPT !.halted = TRUE], conflicts |-> {}]
        ELSE IF r1.a.halted THEN r1
        ELSE IF AnyHalted(yml) THEN [a |-> [r1.a EXCEPT !.halted = TRUE],
                                      conflicts |-> r1.conflicts]
        ELSE [a |-> FoldOtherFrom(r2.a, found.other, 1), conflicts |-> r2.conflicts]

Reverse(s) == [i \in 1..Len(s) |-> s[Len(s) + 1 - i]]

\* the same mods and files enrolled, and so folded, in the opposite order
OtherOrder ==
    extract_definitions(Reverse(modList), Reverse(disk), -1,
                        check_script_conflicts, check_loc_conflicts)

\* per key of a <def> container, by path: how many elements the provenance
\* set of the live child has
DefSourceCounts(a) ==
    UNION { { [path |-> Join(Node(a, def).rel_dir, e.key), n |-> Len(SourcesOf(a, e.id))] :
                e \in Range(Node(a, def).children) } :
            def \in { id \in Ids(a) : Node(a, id).name = DefName } }

\* every mod is enabled, conflict checking is on, and the run that folds
\* the same files in the opposite order ends normally too
ComparableRun ==
    /\ pc = "done"
    /\ check_script_conflicts
    /\ \A i \in 1..Len(modList) : modList[i].enabled
    /\ ~OtherOrder.a.halted

\* C28: with the mods and files fixed and script conflict checking on, the
\* run that folds the mods in the opposite order accumulates the same conflict
\* paths, and the provenance set of the live child of every <def> key has as
\* many elements as in this run (the order changes the live node and the order
\* inside the sets, not what the sets hold).
C28_FoldOrderIndependent ==
    ComparableRun =>
        /\ conflicts = OtherOrder.conflicts
        /\ DefSourceCounts(arena) = DefSourceCounts(OtherOrder.a)

----------------------------------------------------------------------------
(* C29 *)

\* the node reachable at the literal path of a folded file
AtPathOf(a, f) == get_by_dir(a, 0, Node(a, f.root).rel_dir, None)

\* the nodes a fold appended below its file root
AppendedBelow(f) == (f.root + 1)..(f.root + f.len - 1)

FileFolds == { i \in 1..Len(folds) : folds[i].bucket \in {"txt", "yml"} }

\* The top-level nodes a fold appended: those of the file root's children
\* map, which the path link may have given another parent, and those that
\* still have the file's own root as their parent (a key written twice in
\* the file leaves the earlier node out of the children map).
TopLevelOf(a, f) ==
    { e.id : e \in Range(f.top) }
        \cup { id \in AppendedBelow(f) : Node(a, id).parent = Some(f.root) }

\* Bound: the number of files on disk, over both mods
MaxRepeat == 2

\* x = 1
\* x = 2
ScriptXX ==
    TsSourceFile(<< TsAssign(KeyX, <<0, 0>>, TsSimple(Ch("1"), <<0, 4>>)),
                    TsAssign(KeyX, <<1, 0>>, TsSimple(Ch("2"), <<1, 4>>)) >>)

\* files at one script path, one with a key written twice, and one file for
\* each of the other buckets
RepeatTemplates ==
    { [rel |-> <<DirCommon, FooTxt>>, ts |-> ScriptX, lines |-> <<>>],
      [rel |-> <<DirCommon, FooTxt>>, ts |-> ScriptXY, lines |-> <<>>],
      [rel |-> <<DirCommon, FooTxt>>, ts |-> ScriptXX, lines |-> <<>>],
      [rel |-> <<LocalizationDir, DirEnglish, LocYml>>, ts |-> NoScript, lines |-> LocK],
      [rel |-> <<DirGfx, PicDds>>, ts |-> NoScript, lines |-> <<>>] }

RepeatWalks ==
    { w \in UNION { [1..n -> RepeatTemplates] : n \in 0..MaxRepeat } :
        \A i, j \in 1..Len(w) : i # j => w[i].rel # w[j].rel }

InitRepeat ==
    /\ arena = ExtractorArena
    /\ conflicts = {}
    /\ check_script_conflicts = CHECK_SCRIPT_CONFLICTS
    /\ check_loc_conflicts = CHECK_LOC_CONFLICTS
    /\ \E ea, eb \in BOOLEAN :
         modList = << [name |-> Ch("A"), enabled |-> ea, load_order |-> 0, path |-> ModDirA],
                      [name |-> Ch("B"), enabled |-> eb, load_order |-> 1, path |-> ModDirB] >>
    /\ \E wa, wb \in RepeatWalks :
         /\ Len(wa) + Len(wb) <= MaxRepeat
         /\ disk = << OnDisk(ModDirA, wa), OnDisk(ModDirB, wb) >>
    /\ pc = "new"
    /\ mod_files = EmptyFileMap
    /\ extracted = <<>>
    /\ idx = 0
    /\ folds = <<>>
    /\ last = [op |-> "new", args |-> <<>>, ret |-> {}]
    /\ lock = FreeLock
    /\ threads = NoThreads

SpecRepeat == InitRepeat /\ [][NextFold]_vars

\* C29: after each fold, every top-level node of every script or
\* localization file folded so far has as its parent the node that is
\* reachable at the file's literal path, which exists.
C29_FoldedParentsReachable ==
    pc \in {"txt", "yml", "other", "done"} =>
        \A i \in FileFolds :
            /\ IsSome(AtPathOf(arena, folds[i]))
            /\ \A id \in TopLevelOf(arena, folds[i]) :
                 Node(arena, id).parent = AtPathOf(arena, folds[i])

\* the same for the nodes that are in their file root's children map
LinkedTopLevelBelowPath ==
    pc \in {"txt", "yml", "other", "done"} =>
        \A i \in FileFolds :
            /\ IsSome(AtPathOf(arena, folds[i]))
            /\ \A e \in Range(folds[i].top) :
                 Node(arena, e.id).parent = AtPathOf(arena, folds[i])

----------------------------------------------------------------------------
(* SpecDict: IndexedOrderedDict.__eq__ and __ne__                          *)

\* Bound: the entries of a dict
MaxEntries == 2

DictKeys == {1, 2, 3}
DictVals == {1, 2}

\* the dicts: entries in insertion order, every key once
Dicts ==
    { d \in UNION { [1..n -> [key : DictKeys, value : DictVals]] : n \in 0..MaxEntries } :
        \A i, j \in 1..Len(d) : i # j => d[i].key # d[j].key }

\* IndexMap::get
DictGet(d, k) ==
    IF \E i \in 1..Len(d) : d[i].key = k
    THEN Some(d[CHOOSE i \in 1..Len(d) : d[i].key = k].value)
    ELSE None

\* the comparison handed to compare_with: a.eq(b) or a.ne(b)
PyCompare(op, a, b) == IF op = "eq" THEN a = b ELSE a # b

\* IndexedOrderedDict::compare_with on another IndexedOrderedDict
compare_with(self, other, op, check_len) ==
    IF check_len /\ Len(self) # Len(other) THEN FALSE
    ELSE \A i \in 1..Len(self) :
            /\ IsSome(DictGet(other, self[i].key))
            /\ PyCompare(op, self[i].value, Unwrap(DictGet(other, self[i].key)))

__eq__(self, other) == compare_with(self, other, "eq", TRUE)
__ne__(self, other) == ~compare_with(self, other, "ne", TRUE)

InitDict ==
    /\ arena = NewArena
    /\ conflicts = {}
    /\ check_script_conflicts = CHECK_SCRIPT_CONFLICTS
    /\ check_loc_conflicts = CHECK_LOC_CONFLICTS
    /\ modList = <<>>
    /\ disk = <<>>
    /\ pc = "new"
    /\ mod_files = EmptyFileMap
    /\ extracted = <<>>
    /\ idx = 0
    /\ folds = <<>>
    /\ \E a, b \in Dicts : last = [op |-> "new", args |-> <<a, b>>, ret |-> {}]
    /\ lock = FreeLock
    /\ threads = NoThreads

Compared(op, result) ==
    /\ pc = "new"
    /\ pc' = "compared"
    /\ last' = [op |-> op, args |-> last.args, ret |-> {result}]
    /\ UNCHANGED <<lock, threads, arena, conflicts, check_script_conflicts,
                   check_loc_conflicts, modList, disk, mod_files, extracted, idx, folds>>

\* a == b
DictEq == Compared("__eq__", __eq__(last.args[1], last.args[2]))

\* a != b
DictNe == Compared("__ne__", __ne__(last.args[1], last.args[2]))

NextDict == DictEq \/ DictNe

SpecDict == InitDict /\ [][NextDict]_vars

----------------------------------------------------------------------------
(* C30 *)

\* the two dicts have as many entries, and every key of a is in b with an
\* equal value
SameEntries(a, b) ==
    /\ Len(a) = Len(b)
    /\ \A i \in 1..Len(a) : \E j \in 1..Len(b) : b[j] = a[i]

\* C30: a == b holds exactly when the two dicts have the same number of
\* entries and every key of a is in b with an equal value, and a != b is the
\* negation of a == b.
C30_NeNegatesEq ==
    /\ last.op = "__eq__" => last.ret = { SameEntries(last.args[1], last.args[2]) }
    /\ last.op = "__ne__" => last.ret = { ~SameEntries(last.args[1], last.args[2]) }

\* a == b is as stated
EqAsStated ==
    last.op = "__eq__" => last.ret = { SameEntries(last.args[1], last.args[2]) }

\* a != b is right for dicts of different length or with different keys
NeWhenKeysDiffer ==
    (last.op = "__ne__"
        /\ \/ Len(last.args[1]) # Len(last.args[2])
           \/ \E i \in 1..Len(last.args[1]) : DictGet(last.args[2], last.args[1][i].key) = None)
    => last.ret = {TRUE}

====
